---- MODULE Spec2Model ----
(***************************************************************************)
(* Verification model of the per-call scheduling session                   *)
(* (scheduling/session.py), the debug broadcaster                          *)
(* (scheduling/debug_events.py) and the part of the turn controller that   *)
(* drives them (gateway/server.py, scheduling/app.py).                     *)
(*                                                                         *)
(* Python strings are sequences of tokens.  Transition targets and state   *)
(* ids are spelled character by character, so that startswith("exit"),     *)
(* `":" in target` and split(":", 1) are computed as the code computes     *)
(* them; fixed phrases are one token each.  Optional[str] is a sequence of *)
(* zero (None) or one string.                                              *)
(***************************************************************************)
EXTENDS Integers, Sequences, FiniteSets, TLC

\* ---------------------------------------------------------------- bounds
MaxTurns == 3        \* handle_utterance calls per session
MaxPausedTurns == 1  \* the same, when the operator may pause the session
MaxPauses == 1       \* pause() calls per session
MaxSyncSteps == 3    \* tool states run back to back without an await
MaxToolAwaits == 3   \* tool.execute awaits inside one handle_utterance
MaxEmit == 3         \* emits after the initial state (broadcaster)
MaxReads == 2        \* queue reads per subscriber (broadcaster)
MaxBatches == 5      \* batches of mic frames delivered during one call
MaxIdlePolls == 2    \* polls after which the mic track delivers nothing more
MaxChanFrames == 3   \* frames the Twilio channel yields, and frames per send_audio
MaxCloses == 2       \* close() calls on one Twilio channel
MaxPriorCalls == 15  \* LLM calls a session made before the turns explored

\* ------------------------------------------------------- string helpers
None == <<>>
Some(v) == <<v>>

\* Python truthiness of an Optional[str]: neither None nor "".
Truthy(opt) == opt # None /\ opt[1] # <<>>

\* Python `a or b` on Optional[str] values.
PyOr(a, b) == IF Truthy(a) THEN a ELSE b

\* dict.get(key) -> value or None
DictGet(d, k) == IF k \in DOMAIN d THEN Some(d[k]) ELSE None

\* dict.get(key, default)
DictGetDefault(d, k, dflt) == IF k \in DOMAIN d THEN d[k] ELSE dflt

\* str.startswith(prefix)
StartsWith(s, prefix) ==
    /\ Len(s) >= Len(prefix)
    /\ SubSeq(s, 1, Len(prefix)) = prefix

\* `ch in s` for a one-character string
Contains(s, ch) == \E i \in 1..Len(s) : s[i] = ch

\* index of the first occurrence of ch (s must contain it)
FirstIndex(s, ch) == CHOOSE i \in 1..Len(s) :
                        /\ s[i] = ch
                        /\ \A j \in 1..(i - 1) : s[j] # ch

\* s.split(ch, 1) for s containing ch -> <<head, tail>>
Split1(s, ch) == <<SubSeq(s, 1, FirstIndex(s, ch) - 1),
                   SubSeq(s, FirstIndex(s, ch) + 1, Len(s))>>

EXIT == <<"e", "x", "i", "t">>
COLON == ":"
WILDCARD == "*"

\* dict literal helpers
EmptyDict == [k \in {} |-> <<>>]

\* ------------------------------------------------------------ workflows
\* SchedulingStateDef (the fields the session reads)
StateDef(id, step_type, transitions, tool_names, auto_intent, on_enter, state_fields) ==
    [id |-> id, step_type |-> step_type, transitions |-> transitions,
     tool_names |-> tool_names, auto_intent |-> auto_intent,
     on_enter |-> on_enter, state_fields |-> state_fields]

LlmState(id, transitions, on_enter, state_fields) ==
    StateDef(id, "llm", transitions, <<>>, "success", on_enter, state_fields)

ToolState(id, transitions, tool_names) ==
    StateDef(id, "tool", transitions, tool_names, "success", <<>>, EmptyDict)

\* SchedulingWorkflowDef
WorkflowDef(id, initial_state, exit_message, states) ==
    [id |-> id, initial_state |-> initial_state,
     exit_message |-> exit_message, states |-> states]

sA == <<"a">>
sB == <<"b">>
sE == <<"e">>
sT == <<"t">>
sU == <<"u">>
sGhost == <<"g", "h">>

\* _parse_workflow builds the states dict keyed by state id and performs no
\* check of initial_state or of the transition targets.
ParseStates(defs) == [id \in {d.id : d \in defs} |-> CHOOSE d \in defs : d.id = id]

\* The two-state workflow of tests/test_branching_fsm.py.
WfMinimal ==
    WorkflowDef("minimal", sA, <<"Goodbye!">>, ParseStates({
        LlmState(sA, [next |-> sB, cancel |-> EXIT \o <<":", "Bye!">>], <<>>, EmptyDict),
        LlmState(sB, ("done" :> (EXIT \o <<":", "All done!">>)) @@ ("*" :> sA),
                 <<>>, EmptyDict)}))

\* LLM state -> two chained tool states -> LLM state, with error recovery.
WfTools ==
    WorkflowDef("tools", sA, <<"Goodbye!">>, ParseStates({
        LlmState(sA, [next |-> sT, cancel |-> EXIT], <<>>,
                 [bedrooms |-> <<"bedrooms">>,
                  area |-> <<"preferred_area">>,
                  budget |-> <<"state.", "max_budget">>,
                  extras |-> <<"step_data.", "preferences">>]),
        ToolState(sT, [success |-> sU, error |-> sE \o <<":", "Sorry">>],
                  <<"apartment_search">>),
        ToolState(sU, [success |-> sB, error |-> EXIT \o <<":", "Try later">>],
                  <<"check_availability">>),
        LlmState(sB, [next |-> EXIT], <<"Here are your options">>, EmptyDict),
        LlmState(sE, ("next" :> sA) @@ ("*" :> (EXIT \o <<":", "Bye!">>)),
                 <<"Search failed">>, EmptyDict)}))

\* Wildcard fallback, empty targets and an exit with an empty message.
WfWild ==
    WorkflowDef("wild", sA, <<>>, ParseStates({
        LlmState(sA, ("next" :> <<>>) @@ ("*" :> sB), <<>>, EmptyDict),
        LlmState(sB, ("cancel" :> <<>>) @@ ("next" :> (EXIT \o <<":">>)),
                 <<>>, EmptyDict)}))

\* A transition target that names no state: the loader accepts it.
WfDangling ==
    WorkflowDef("dangling", sA, <<"Goodbye!">>, ParseStates({
        LlmState(sA, [next |-> sGhost, cancel |-> EXIT], <<>>, EmptyDict)}))

\* The initial state is a tool state.
WfToolFirst ==
    WorkflowDef("toolfirst", sT, <<"Goodbye!">>, ParseStates({
        ToolState(sT, [success |-> sA, error |-> EXIT], <<"apartment_search">>),
        LlmState(sA, [next |-> EXIT \o <<":", "Bye!">>], <<"Welcome">>, EmptyDict)}))

Workflows == {WfMinimal, WfTools, WfWild, WfDangling, WfToolFirst}

\* A tool state with no transition for "error", and one with none for its
\* auto_intent: every state leads to an exit.
WfToolStay ==
    WorkflowDef("toolstay", sA, <<"Goodbye!">>, ParseStates({
        LlmState(sA, [next |-> sT, cancel |-> EXIT], <<>>, EmptyDict),
        ToolState(sT, [success |-> sB], <<"apartment_search">>),
        LlmState(sB, [next |-> EXIT], <<"Here are your options">>, EmptyDict)}))

WfToolSpin ==
    WorkflowDef("toolspin", sA, <<"Goodbye!">>, ParseStates({
        LlmState(sA, [next |-> sT, cancel |-> EXIT], <<>>, EmptyDict),
        ToolState(sT, [error |-> EXIT], <<"check_availability">>)}))

\* --------------------------------------------------- transition routing
\* SchedulingSession._get_state: the state definition, or None
_get_state(wf, state_id) ==
    IF state_id \in DOMAIN wf.states THEN Some(wf.states[state_id]) ELSE None

\* _resolve_target with the ":" branch of exit targets lost
ResolveTargetWorkflowMessage(wf, target) ==
    IF target = <<>> THEN <<(<<>>), (<<>>)>>
    ELSE IF StartsWith(target, EXIT)
         THEN <<(<<>>), wf.exit_message>>
         ELSE IF Contains(target, COLON)
              THEN Split1(target, COLON)
              ELSE <<target, (<<>>)>>

\* SchedulingSession._resolve_target -> <<state_id, exit_message>>
_resolve_target(wf, target) ==
    IF target = <<>> THEN <<(<<>>), (<<>>)>>
    ELSE IF StartsWith(target, EXIT)
         THEN IF Contains(target, COLON)
              THEN <<(<<>>), Split1(target, COLON)[2]>>
              ELSE <<(<<>>), wf.exit_message>>
         ELSE IF Contains(target, COLON)
              THEN Split1(target, COLON)
              ELSE <<target, (<<>>)>>

\* The target looked up by _resolve_transition:
\* state.transitions.get(intent) or state.transitions.get("*")
LookupTarget(state, intent) ==
    PyOr(DictGet(state.transitions, intent), DictGet(state.transitions, WILDCARD))

\* ---------------------------------------------------------- broadcaster
\* asyncio.Queue(maxsize=200)
maxsize == 200

QueueIds == {"q1", "q2"}

\* DebugEvent; the wall-clock timestamp and the constant session id are left out.
DebugEvent(event_type, state_id, data) ==
    [type |-> event_type, state_id |-> state_id, data |-> data]

\* DebugBroadcaster.__init__
NewBroadcaster ==
    [event_log |-> <<>>, subscribers |-> <<>>, queues |-> [q \in QueueIds |-> <<>>]]

InList(list, x) == \E i \in 1..Len(list) : list[i] = x

\* list.remove(x): drops the first occurrence
ListRemove(list, x) ==
    LET i == CHOOSE k \in 1..Len(list) :
                 list[k] = x /\ \A j \in 1..(k - 1) : list[j] # x
    IN  SubSeq(list, 1, i - 1) \o SubSeq(list, i + 1, Len(list))

\* emit's loop body without the QueueFull handler: the new event is lost
PutDropNewest(queue, event) ==
    IF Len(queue) < maxsize THEN Append(queue, event) ELSE queue

\* The body of emit's loop for one subscriber queue: put_nowait, and on
\* QueueFull get_nowait (drop the oldest) then put_nowait again.
PutDropOldest(queue, event) ==
    IF Len(queue) < maxsize
    THEN Append(queue, event)
    ELSE IF queue = <<>>
         THEN queue
         ELSE IF Len(Tail(queue)) < maxsize
              THEN Append(Tail(queue), event)
              ELSE Tail(queue)

\* self._event_log.append(event)
LogAppend(event_log, event) == Append(event_log, event)

\* DebugBroadcaster.emit
emit(bc, event_type, state_id, data) ==
    LET event == DebugEvent(event_type, state_id, data)
    IN  [bc EXCEPT
           !.event_log = LogAppend(@, event),
           !.queues = [q \in QueueIds |->
                          IF InList(bc.subscribers, q)
                          THEN PutDropOldest(bc.queues[q], event)
                          ELSE bc.queues[q]]]

\* DebugBroadcaster.subscribe, q being the new queue object
subscribe(bc, q) == [bc EXCEPT !.subscribers = Append(@, q)]

\* unsubscribe that leaves the queue in the subscriber list
UnsubscribeKeeps(bc, q) == bc

\* DebugBroadcaster.unsubscribe
unsubscribe(bc, q) ==
    IF InList(bc.subscribers, q)
    THEN [bc EXCEPT !.subscribers = ListRemove(@, q)]
    ELSE bc

\* event_log returning self._event_log itself
EventLogAliased(bc) == [list |-> bc.event_log, aliased |-> TRUE]

\* DebugBroadcaster.event_log: list(self._event_log), a new list object.
\* aliased tells whether the returned list is the log itself.
event_log_copy(bc) == [list |-> bc.event_log, aliased |-> FALSE]

\* -------------------------------------------------------------- session
\* A Python string that may carry a JSON completion signal: the spoken
\* tokens and the parsed signal (None when the string holds no JSON object).
Raw(text, signal) == [text |-> text, signal |-> signal]
Plain(text) == Raw(text, None)

\* SchedulingSession._extract_json_signal: the parsed dict or None
_extract_json_signal(raw) == raw.signal

\* SchedulingSession._extract_text_response: the text without the JSON
_extract_text_response(raw) == raw.text

\* f"{a} {b}".strip() for a spoken text a and a raw string b
JoinStrip(a, b) == Raw(a \o b.text, b.signal)

\* bool(d) for a dict or None
DictBool(opt) == opt # None /\ DOMAIN opt[1] # {}

\* data.get("done") is truthy
SignalDone(data) == "done" \in DOMAIN data /\ data["done"] = TRUE

\* Trim history: more than 30 entries are cut to the last 20.
HistoryMax == 30
HistoryKeep == 20

CallerFields == {"bedrooms", "max_budget", "preferred_area", "selected_time_slot"}
STEP_DATA_PREFIX == <<"step_data.">>
CONFIRM_DONE == <<"confirm_done">>

\* The registered tools (_init_tools) without and with a calendar provider.
ToolsNoCalendar == {"apartment_search"}
ToolsWithCalendar == {"apartment_search", "check_availability", "create_booking"}

\* SchedulingSession.__init__ followed by attach_broadcaster
NewSession(wf, tools) ==
    [current_step_id |-> wf.initial_state,
     done |-> FALSE,
     step_data |-> EmptyDict,
     caller_state |-> [f \in CallerFields |-> None],
     messages |-> <<>>,
     tools |-> tools,
     bc |-> NewBroadcaster]

\* SchedulingSession._emit_event (a broadcaster is attached)
_emit_event(s, event_type, data) ==
    [s EXCEPT !.bc = emit(@, event_type, s.current_step_id, data)]

\* SchedulingSession._current_state
_current_state(wf, s) == _get_state(wf, s.current_step_id)

\* _resolve_transition emitting the transition event before it advances
ResolveTransitionEmitsFirst(wf, s, state, intent) ==
    LET target == LookupTarget(state, intent)
    IN  IF ~Truthy(target)
        THEN [s |-> s, next |-> Some(state)]
        ELSE LET rt == _resolve_target(wf, target[1])
             IN  IF rt[1] = <<>>
                 THEN [s |-> [s EXCEPT !.done = TRUE], next |-> None]
                 ELSE LET s1 == _emit_event(s, "transition",
                                    [from |-> state.id, to |-> rt[1], intent |-> intent])
                      IN  [s |-> [s1 EXCEPT !.current_step_id = rt[1]],
                           next |-> _get_state(wf, rt[1])]

\* SchedulingSession._resolve_transition -> the session and the next state
\* (None when the session exits or the target names no state)
_resolve_transition(wf, s, state, intent) ==
    LET target == LookupTarget(state, intent)
    IN  IF ~Truthy(target)
        THEN [s |-> s, next |-> Some(state)]
        ELSE LET rt == _resolve_target(wf, target[1])
             IN  IF rt[1] = <<>>
                 THEN [s |-> [s EXCEPT !.done = TRUE], next |-> None]
                 ELSE LET s1 == [s EXCEPT !.current_step_id = rt[1]]
                      IN  [s |-> _emit_event(s1, "transition",
                                     [from |-> state.id, to |-> rt[1], intent |-> intent]),
                           next |-> _get_state(wf, rt[1])]

\* _call_llm without its llm_call event
CallLlmNoEvent(s, user_text) == s

\* _call_llm up to `await orch.chat(user_text)`
_call_llm_begin(s, user_text) ==
    _emit_event(s, "llm_call", [user_text |-> user_text])

\* The history appended to and never trimmed
AppendTurnNoTrim(messages, user_text, reply) ==
    messages \o <<[role |-> "user", content |-> user_text],
                  [role |-> "assistant", content |-> reply]>>

\* The history after appending the user and the assistant turn
AppendTurn(messages, user_text, reply) ==
    LET msgs == messages \o <<[role |-> "user", content |-> user_text],
                              [role |-> "assistant", content |-> reply]>>
    IN  IF Len(msgs) > HistoryMax
        THEN SubSeq(msgs, Len(msgs) - HistoryKeep + 1, Len(msgs))
        ELSE msgs

\* _call_llm after orch.chat returned reply
_call_llm_end(s, user_text, reply) ==
    LET s1 == _emit_event(s, "llm_response",
                  [response |-> reply,
                   has_json_signal |-> DictBool(_extract_json_signal(reply))])
    IN  [s1 EXCEPT !.messages = AppendTurn(@, user_text, reply)]

\* `pat in combined`: the key occurs in the user text or in the raw reply
Mentions(key, user_text, reply) ==
    \/ InList(user_text.text, key)
    \/ InList(reply.text, key)
    \/ (reply.signal # None /\ key \in DOMAIN reply.signal[1])

\* SchedulingSession._detect_field_progress
_detect_field_progress(s, state, user_text, reply) ==
    LET detected == {k \in DOMAIN state.state_fields : Mentions(k, user_text, reply)}
    IN  IF detected = {} THEN s
        ELSE _emit_event(s, "field_progress", [fields |-> detected])

\* The state_fields loop without its step_data branch
ApplyStateFieldsStateOnly(s, state_fields, data) ==
    LET present == {k \in DOMAIN state_fields : k \in DOMAIN data /\ data[k] # None}
        toState == {k \in present :
                       /\ Len(state_fields[k]) = 1
                       /\ state_fields[k][1] \in CallerFields}
    IN  [s EXCEPT
           !.caller_state = [f \in CallerFields |->
                            IF \E k \in toState : state_fields[k][1] = f
                            THEN Some(data[CHOOSE k \in toState : state_fields[k][1] = f])
                            ELSE s.caller_state[f]]]

\* The state_fields loop of _process_step_completion.  A JSON null is None:
\* `value = data.get(json_key); if value is None: continue`.
ApplyStateFields(s, state_fields, data) ==
    LET present == {k \in DOMAIN state_fields : k \in DOMAIN data /\ data[k] # None}
        toStep == {k \in present : StartsWith(state_fields[k], STEP_DATA_PREFIX)}
        toState == {k \in present \ toStep :
                       /\ Len(state_fields[k]) = 1
                       /\ state_fields[k][1] \in CallerFields}
        stepKeys == {Tail(state_fields[k]) : k \in toStep}
    IN  [s EXCEPT
           !.step_data = [key \in (DOMAIN s.step_data) \cup stepKeys |->
                            IF key \in stepKeys
                            THEN data[CHOOSE k \in toStep : Tail(state_fields[k]) = key]
                            ELSE s.step_data[key]],
           !.caller_state = [f \in CallerFields |->
                            IF \E k \in toState : state_fields[k][1] = f
                            THEN Some(data[CHOOSE k \in toState : state_fields[k][1] = f])
                            ELSE s.caller_state[f]]]

\* _process_step_completion without its step_complete event
StepCompletionNoEvent(s, state, data) ==
    LET s1 == ApplyStateFields(s, state.state_fields, data)
    IN  IF state.id = CONFIRM_DONE \/ SignalDone(data)
        THEN [s1 EXCEPT !.done = TRUE]
        ELSE s1

\* SchedulingSession._process_step_completion.  The branches keyed on the
\* ids greet_and_gather, present_options, collect_details and propose_times
\* apply to no state of the catalog above.
_process_step_completion(s, state, data) ==
    LET s1 == ApplyStateFields(s, state.state_fields, data)
        s2 == IF state.id = CONFIRM_DONE \/ SignalDone(data)
              THEN [s1 EXCEPT !.done = TRUE]
              ELSE s1
    IN  _emit_event(s2, "step_complete", [extracted_data |-> data])

\* ------------------------------------------- handle_utterance, by await
\* The locals of the call in flight.
Frame(state, text, text_response, tool_state, tool_i, results, prompt, awaits) ==
    [state |-> state, text |-> text, text_response |-> text_response,
     tool_state |-> tool_state, tool_i |-> tool_i, results |-> results,
     prompt |-> prompt, awaits |-> awaits,
     \* ghost: the tool states _run_tool_steps ran in this call, and whether
     \* it ran one of them again
     ran |-> {}, rerun |-> FALSE]

NoFrame == Frame(None, Plain(<<>>), <<>>, None, 0, <<>>, Plain(<<>>), 0)
NoRet == [kind |-> "none", value |-> Plain(<<>>)]

\* The session, the position of the coroutine, its locals and its outcome.
Machine(s, at, fr, r) == [s |-> s, pc |-> at, fr |-> fr, ret |-> r]
Return(s, value) == Machine(s, "idle", NoFrame, [kind |-> "text", value |-> value])
Raised(s) == Machine(s, "idle", NoFrame, [kind |-> "raised", value |-> Plain(<<>>)])

THANKS == <<"Thank you for calling. Goodbye!">>
SORRY == <<"I'm sorry, something went wrong. Goodbye!">>
GOODBYE == <<"Goodbye!">>
HELLO == <<"Hello! How can I help you?">>
GREETING_PROMPT == <<"A caller just connected. Greet them warmly.">>

\* a or b for two str values
StrOr(a, b) == IF a # <<>> THEN a ELSE b

\* "\n".join(results)
RECURSIVE JoinLines(_)
JoinLines(results) ==
    IF results = <<>> THEN <<>>
    ELSE IF Len(results) = 1 THEN results[1]
    ELSE results[1] \o <<"\n">> \o JoinLines(Tail(results))

\* _get_step_opening making no LLM call for a state without on_enter
OpeningOnlyWithOnEnter(s, fr, state) ==
    IF state.on_enter = <<>>
    THEN Return(s, Plain(fr.text_response))
    ELSE LET prompt == Plain(<<"You are now entering this conversation step. Say this:">>
                             \o state.on_enter)
         IN  Machine(_call_llm_begin(s, prompt), "opening",
                     [fr EXCEPT !.prompt = prompt], NoRet)

\* _get_step_opening up to its LLM await
_get_step_opening(s, fr, state) ==
    LET prompt == IF state.on_enter # <<>>
                  THEN Plain(<<"You are now entering this conversation step. Say this:">>
                             \o state.on_enter)
                  ELSE Plain(<<"Continue the conversation.">>)
    IN  Machine(_call_llm_begin(s, prompt), "opening",
                [fr EXCEPT !.prompt = prompt], NoRet)

\* _handle_llm_step after _run_tool_steps returned
AfterToolSteps(wf, s, fr) ==
    LET current == _current_state(wf, s)
    IN  IF current # None /\ current[1].step_type = "llm"
        THEN _get_step_opening(s, fr, current[1])
        ELSE Return(s, Plain(fr.text_response))

RECURSIVE _run_tool_steps(_, _, _, _)
RECURSIVE _execute_tool_step(_, _, _, _, _, _, _)
RECURSIVE ToolStepResolved(_, _, _, _, _, _)

\* The tail of one iteration of _run_tool_steps: outcome is the joined
\* result, or None when a tool raised.
ToolStepResolved(wf, s, fr, state, outcome, fuel) ==
    LET value == IF outcome # None THEN outcome[1] ELSE <<"Error:", "tool failed">>
        intent == IF outcome # None THEN state.auto_intent ELSE "error"
        s1 == [s EXCEPT !.step_data = (state.id :> value) @@ @]
        rt == _resolve_transition(wf, s1, state, intent)
    IN  IF rt.s.done \/ rt.next = None
        THEN AfterToolSteps(wf, rt.s, fr)
        ELSE _run_tool_steps(wf, rt.s, fr, fuel - 1)

\* _execute_tool_step from tool i on, up to the next tool.execute await
_execute_tool_step(wf, s, fr, state, i, results, fuel) ==
    IF i > Len(state.tool_names)
    THEN ToolStepResolved(wf, s, fr, state, Some(JoinLines(results)), fuel)
    ELSE IF state.tool_names[i] \notin s.tools
         THEN _execute_tool_step(wf, s, fr, state, i + 1,
                  Append(results, <<"Tool", state.tool_names[i], "not available">>), fuel)
         ELSE Machine(s, "tool",
                  [fr EXCEPT !.tool_state = Some(state), !.tool_i = i,
                             !.results = results, !.awaits = @ + 1],
                  NoRet)

\* _run_tool_steps: the loop head.  fuel bounds the tool states run back
\* to back without an await; at 0 the coroutine spins without yielding.
_run_tool_steps(wf, s, fr, fuel) ==
    LET state == _current_state(wf, s)
    IN  IF state = None \/ state[1].step_type # "tool"
        THEN AfterToolSteps(wf, s, fr)
        ELSE LET fr1 == [fr EXCEPT !.rerun = @ \/ state[1].id \in fr.ran,
                                   !.ran = @ \cup {state[1].id}]
             IN  IF fuel = 0
                 THEN Machine(s, "spin", fr1, NoRet)
                 ELSE _execute_tool_step(wf, s, fr1, state[1], 1, <<>>, fuel)

\* tool.execute returned and no tool_exec event is emitted
ToolReturnedNoEvent(wf, s, fr, result) ==
    _execute_tool_step(wf, s, fr, fr.tool_state[1], fr.tool_i + 1,
                       Append(fr.results, result), MaxSyncSteps)

\* tool.execute returned: emit tool_exec and go on with the next tool
ToolReturned(wf, s, fr, result) ==
    LET state == fr.tool_state[1]
        s1 == _emit_event(s, "tool_exec",
                  [tool_name |-> state.tool_names[fr.tool_i], result |-> result])
    IN  _execute_tool_step(wf, s1, fr, state, fr.tool_i + 1,
                           Append(fr.results, result), MaxSyncSteps)

\* _run_tool_steps without its try/except: the exception leaves the call
ToolRaisedUncaught(wf, s, fr) == Raised(s)

\* tool.execute raised: the except branch of _run_tool_steps
ToolRaised(wf, s, fr) ==
    ToolStepResolved(wf, s, fr, fr.tool_state[1], None, MaxSyncSteps)

\* The goodbye message computed by _handle_llm_step once the session is done:
\* _resolve_target(transitions.get(intent, "") or transitions.get("*", ""))[1]
ExitMessage(wf, state, intent) ==
    _resolve_target(wf, StrOr(DictGetDefault(state.transitions, intent, <<>>),
                              DictGetDefault(state.transitions, WILDCARD, <<>>)))[2]

\* _handle_llm_step up to its LLM await
_handle_llm_step(s, state, text) ==
    Machine(_call_llm_begin(s, text), "llm",
            [NoFrame EXCEPT !.state = Some(state), !.text = text], NoRet)

\* _handle_llm_step after the LLM replied
LlmReplied(wf, s, fr, reply) ==
    LET state == fr.state[1]
        s1 == _call_llm_end(s, fr.text, reply)
        s2 == _detect_field_progress(s1, state, fr.text, reply)
        extracted == _extract_json_signal(reply)
    IN  IF extracted = None
        THEN Return(s2, Plain(_extract_text_response(reply)))
        ELSE LET s3 == _process_step_completion(s2, state, extracted[1])
                 text_response == _extract_text_response(reply)
                 intent == DictGetDefault(extracted[1], "intent", "success")
                 rt == _resolve_transition(wf, s3, state, intent)
                 exit_msg == ExitMessage(wf, state, intent)
             IN  IF rt.s.done
                 THEN Return(rt.s, Plain(StrOr(text_response, StrOr(exit_msg, GOODBYE))))
                 ELSE IF rt.next # None
                      THEN _run_tool_steps(wf, rt.s,
                               [fr EXCEPT !.text_response = text_response], MaxSyncSteps)
                      ELSE Return(rt.s, Plain(text_response))

\* _get_step_opening after the LLM replied, and the return of _handle_llm_step
OpeningReplied(s, fr, reply) ==
    Return(_call_llm_end(s, fr.prompt, reply), JoinStrip(fr.text_response, reply))

\* handle_utterance after `await self._paused.wait()`
handle_utterance(wf, s, text) ==
    IF s.done
    THEN Return(s, Plain(THANKS))
    ELSE LET state == _current_state(wf, s)
         IN  IF state = None
             THEN Return(s, Plain(SORRY))
             ELSE LET s1 == _emit_event(s, "stt", [text |-> text])
                  IN  IF state[1].step_type = "llm"
                      THEN _handle_llm_step(s1, state[1], text)
                      ELSE LET rt == _resolve_transition(wf, s1, state[1],
                                                         state[1].auto_intent)
                           IN  IF rt.next # None /\ rt.next[1].step_type = "llm"
                               THEN _handle_llm_step(rt.s, rt.next[1], text)
                               ELSE _handle_llm_step(rt.s, state[1], text)

\* get_greeting up to its LLM await
get_greeting(wf, s) ==
    IF _current_state(wf, s) = None
    THEN Return(s, Plain(HELLO))
    ELSE Machine(_call_llm_begin(s, Plain(GREETING_PROMPT)), "greet",
                 [NoFrame EXCEPT !.text = Plain(GREETING_PROMPT)], NoRet)

\* get_greeting treating its reply as a step reply: the signal completes
\* the step
GreetingRepliedParsed(s, fr, reply) ==
    LET s1 == _call_llm_end(s, fr.text, reply)
        extracted == _extract_json_signal(reply)
    IN  Return(IF extracted = None THEN s1
               ELSE _emit_event([s1 EXCEPT !.done = SignalDone(extracted[1])],
                                "step_complete", [extracted_data |-> extracted[1]]),
               Plain(_extract_text_response(reply)))

\* get_greeting after the LLM replied
GreetingReplied(s, fr, reply) ==
    Return(_call_llm_end(s, fr.text, reply), Plain(_extract_text_response(reply)))

\* handle_utterance without `await self._paused.wait()`
PausedWaitSkipped(wf, s, event_set, text) == handle_utterance(wf, s, text)

\* handle_utterance from its first line: `await self._paused.wait()` returns
\* at once when the event is set, and suspends the call otherwise.
_paused_wait(wf, s, event_set, text) ==
    IF event_set
    THEN handle_utterance(wf, s, text)
    ELSE Machine(s, "blocked", [NoFrame EXCEPT !.text = text], NoRet)

\* SchedulingSession.pause: clear the event, emit "pause"
pause(s) == _emit_event(s, "pause", EmptyDict)

\* SchedulingSession.resume: set the event, emit "resume"
resume(s) == _emit_event(s, "resume", EmptyDict)

\* ---------------------------------------------------------------- inputs
Utterances == {Plain(<<"hi">>)}

LlmReplies ==
    {Plain(<<"bedrooms">>),
     Raw(<<"Sure.">>, Some(EmptyDict)),
     Raw(<<"Sure.">>, Some([intent |-> "next", bedrooms |-> <<"2">>,
                            budget |-> <<"2000">>, extras |-> <<"pets">>])),
     Raw(<<>>, Some([intent |-> "next"])),
     Raw(<<"Sure.">>, Some([intent |-> "cancel"])),
     Raw(<<>>, Some([intent |-> "cancel"])),
     Raw(<<"Sure.">>, Some([intent |-> "bogus", bedrooms |-> None])),
     Raw(<<"Sure.">>, Some([intent |-> "next", done |-> TRUE]))}

OpeningReplies ==
    {Plain(<<"Welcome.">>), Raw(<<"Welcome.">>, Some([intent |-> "next"]))}

GreetingReplies == {Raw(<<"Hello!">>, Some([intent |-> "next"]))}

ToolResultText == <<"tool result">>

\* ----------------------------------------------------------------- state
VARIABLES
    workflow,      \* the session's SchedulingWorkflowDef
    session,       \* the SchedulingSession fields and its broadcaster
    paused,        \* the asyncio.Event _paused: TRUE when set (not paused)
    pc,            \* where the session coroutine is suspended
    frame,         \* the locals of the call in flight
    ret,           \* the outcome of the last get_greeting / handle_utterance
    ctl,           \* the turn controller: "start", "running", "exited"
    registered,    \* the session is in _active_sessions
    last_call,     \* "none", "greeting" or "utterance"
    call_mark,     \* length of the event log when the last call was entered
    call_entry,    \* the session fields when the last call was entered
    was_blocked,   \* the last handle_utterance waited on the pause event
    turns, pauses, resumes,
    emits,         \* broadcaster: emits since the initial state
    tool_done,     \* completed tool.execute awaits
    tool_outcome,  \* outcome of the last one: "none", "ok", "raise"
    llm_failed,    \* an LLM call raised inside handle_utterance
    emitted,       \* broadcaster: the events handed to emit, in order
    sub,           \* broadcaster: per queue, its subscription window
    read,          \* broadcaster: per queue, the events read from it
    full_at,       \* broadcaster: per queue, emits that found it full
    returned,      \* broadcaster: the list a caller got from event_log
    r_in, r_out,   \* routing: one transition resolution and its result
    loop,          \* voice turn loop of one call (gateway/server.py, scheduling/app.py)
    reg,           \* the session registry and the broadcaster registry
    store,         \* admin workflow store: the stored workflow and the last request's outcome
    chan           \* the Twilio media-stream channel of one call, or one signaling WebSocket

controlVars == <<workflow, paused, pc, frame, ret, ctl, registered,
                 last_call, call_mark, call_entry, was_blocked, turns, pauses,
                 resumes, tool_done, tool_outcome, llm_failed>>
sessionVars == <<session, controlVars>>
ghostBcVars == <<emitted, sub, read, full_at, returned, emits>>
routeVars == <<r_in, r_out>>
audioVars == <<loop, reg, store, chan>>
vars == <<sessionVars, ghostBcVars, routeVars, audioVars>>

\* The session fields a call may change, the broadcaster aside.
Core(s) == [current_step_id |-> s.current_step_id, done |-> s.done,
            step_data |-> s.step_data, caller_state |-> s.caller_state,
            messages |-> s.messages]

NoSub == [state |-> "new", from |-> 0, to |-> 0]
NoReturned == [list |-> <<>>, aliased |-> FALSE, held |-> FALSE]
NoRoute == [at |-> "none"]
NoLoop == [at |-> "none"]
NoStore == [at |-> "none"]
NoReg == [at |-> "none"]
NoChan == [at |-> "none"]

InitGhostBc ==
    /\ emitted = <<>>
    /\ sub = [q \in QueueIds |-> NoSub]
    /\ read = [q \in QueueIds |-> <<>>]
    /\ full_at = [q \in QueueIds |-> 0]
    /\ returned = NoReturned
    /\ emits = 0

InitRoute == r_in = NoRoute /\ r_out = NoRoute

InitAudio == loop = NoLoop /\ reg = NoReg /\ store = NoStore /\ chan = NoChan

\* The state after _start_voice_loop / twilio_stream created the session,
\* registered it and attached its broadcaster.
InitControl ==
    /\ paused = TRUE
    /\ pc = "idle"
    /\ frame = NoFrame
    /\ ret = NoRet
    /\ ctl = "start"
    /\ registered = TRUE
    /\ last_call = "none"
    /\ call_mark = 0
    /\ call_entry = Core(session)
    /\ was_blocked = FALSE
    /\ turns = 0 /\ pauses = 0 /\ resumes = 0
    /\ tool_done = 0
    /\ tool_outcome = "none"
    /\ llm_failed = FALSE

InitSession(wfs) ==
    /\ workflow \in wfs
    /\ \E tools \in {ToolsNoCalendar, ToolsWithCalendar} :
          session = NewSession(workflow, tools)
    /\ InitControl

Init == InitSession(Workflows) /\ InitGhostBc /\ InitRoute /\ InitAudio

\* The session of a specification that follows another component
InitOneSession ==
    /\ workflow = WfMinimal
    /\ session = NewSession(WfMinimal, ToolsNoCalendar)
    /\ InitControl

\* ---------------------------------------------------------------- actions
\* Install the machine m reached by the session coroutine.  An exception
\* leaves the voice loop through `except Exception` and `finally:
\* unregister_session(sid)`.
Install(m) ==
    /\ session' = m.s
    /\ pc' = m.pc
    /\ frame' = m.fr
    /\ ret' = m.ret
    /\ IF m.ret.kind = "raised"
       THEN ctl' = "exited" /\ registered' = FALSE
       ELSE ctl' = (IF ctl = "start" /\ m.pc = "idle" THEN "running" ELSE ctl)
            /\ registered' = registered

\* The controller asks for the greeting.
GetGreeting ==
    /\ ctl = "start" /\ pc = "idle" /\ last_call = "none"
    /\ Install(get_greeting(workflow, session))
    /\ last_call' = "greeting"
    /\ call_mark' = Len(session.bc.event_log)
    /\ call_entry' = Core(session)
    /\ UNCHANGED <<workflow, paused, was_blocked, turns, pauses, resumes,
                   tool_done, tool_outcome, llm_failed>>
    /\ UNCHANGED <<ghostBcVars, routeVars, audioVars>>

\* orch.chat returns or raises inside get_greeting.
GreetingReply ==
    /\ pc = "greet"
    /\ \/ \E reply \in GreetingReplies : Install(GreetingReplied(session, frame, reply))
       \/ Install(Raised(session))
    /\ UNCHANGED <<workflow, paused, last_call, call_mark, call_entry, was_blocked,
                   turns, pauses, resumes, tool_done, tool_outcome, llm_failed>>
    /\ UNCHANGED <<ghostBcVars, routeVars, audioVars>>

\* The controller hands a transcribed utterance to handle_utterance.
Utterance(bound) ==
    /\ ctl = "running" /\ pc = "idle" /\ ~session.done
    /\ turns < bound
    /\ \E text \in Utterances :
          Install(_paused_wait(workflow, session, paused, text))
    /\ turns' = turns + 1
    /\ last_call' = "utterance"
    /\ call_mark' = Len(session.bc.event_log)
    /\ call_entry' = Core(session)
    /\ was_blocked' = ~paused
    /\ UNCHANGED <<workflow, paused, pauses, resumes, tool_done, tool_outcome,
                   llm_failed>>
    /\ UNCHANGED <<ghostBcVars, routeVars, audioVars>>

\* The waiter released by resume() runs on.
Wake ==
    /\ pc = "woken"
    /\ Install(handle_utterance(workflow, session, frame.text))
    /\ UNCHANGED <<workflow, paused, last_call, call_mark, call_entry, was_blocked,
                   turns, pauses, resumes, tool_done, tool_outcome, llm_failed>>
    /\ UNCHANGED <<ghostBcVars, routeVars, audioVars>>

\* orch.chat returns or raises inside _handle_llm_step.
LlmReply ==
    /\ pc = "llm"
    /\ \/ /\ \E reply \in LlmReplies :
                Install(LlmReplied(workflow, session, frame, reply))
          /\ UNCHANGED llm_failed
       \/ /\ Install(Raised(session))
          /\ llm_failed' = TRUE
    /\ UNCHANGED <<workflow, paused, last_call, call_mark, call_entry, was_blocked,
                   turns, pauses, resumes, tool_done, tool_outcome>>
    /\ UNCHANGED <<ghostBcVars, routeVars, audioVars>>

\* tool.execute returns or raises inside _execute_tool_step.
ToolResult ==
    /\ pc = "tool"
    /\ frame.awaits <= MaxToolAwaits
    /\ \/ /\ Install(ToolReturned(workflow, session, frame, ToolResultText))
          /\ tool_outcome' = "ok"
       \/ /\ Install(ToolRaised(workflow, session, frame))
          /\ tool_outcome' = "raise"
    /\ tool_done' = tool_done + 1
    /\ UNCHANGED <<workflow, paused, last_call, call_mark, call_entry, was_blocked,
                   turns, pauses, resumes, llm_failed>>
    /\ UNCHANGED <<ghostBcVars, routeVars, audioVars>>

\* orch.chat returns or raises inside _get_step_opening.
OpeningReply ==
    /\ pc = "opening"
    /\ \/ /\ \E reply \in OpeningReplies :
                Install(OpeningReplied(session, frame, reply))
          /\ UNCHANGED llm_failed
       \/ /\ Install(Raised(session))
          /\ llm_failed' = TRUE
    /\ UNCHANGED <<workflow, paused, last_call, call_mark, call_entry, was_blocked,
                   turns, pauses, resumes, tool_done, tool_outcome>>
    /\ UNCHANGED <<ghostBcVars, routeVars, audioVars>>

\* POST /api/fsm/sessions/{id}/pause on a registered session
Pause ==
    /\ registered
    /\ pauses < MaxPauses
    /\ paused' = FALSE
    /\ session' = pause(session)
    /\ pauses' = pauses + 1
    /\ UNCHANGED <<workflow, pc, frame, ret, ctl, registered, last_call, call_mark,
                   call_entry, was_blocked, turns, resumes, tool_done, tool_outcome,
                   llm_failed>>
    /\ UNCHANGED <<ghostBcVars, routeVars, audioVars>>

\* POST /api/fsm/sessions/{id}/resume on a registered session; setting the
\* event releases a call waiting on it.  The operator resumes only what was
\* paused before.
Resume ==
    /\ registered
    /\ resumes < pauses
    /\ paused' = TRUE
    /\ session' = resume(session)
    /\ pc' = (IF pc = "blocked" THEN "woken" ELSE pc)
    /\ resumes' = resumes + 1
    /\ UNCHANGED <<workflow, frame, ret, ctl, registered, last_call, call_mark,
                   call_entry, was_blocked, turns, pauses, tool_done, tool_outcome,
                   llm_failed>>
    /\ UNCHANGED <<ghostBcVars, routeVars, audioVars>>

\* `while not scheduling_session.is_done` ends the loop; finally unregisters.
LoopExit ==
    /\ ctl = "running" /\ pc = "idle" /\ session.done
    /\ ctl' = "exited"
    /\ registered' = FALSE
    /\ UNCHANGED <<workflow, session, paused, pc, frame, ret, last_call, call_mark,
                   call_entry, was_blocked, turns, pauses, resumes, tool_done,
                   tool_outcome, llm_failed>>
    /\ UNCHANGED <<ghostBcVars, routeVars, audioVars>>

\* The session driven by the turn controller alone.
Next ==
    \/ GetGreeting
    \/ GreetingReply
    \/ Utterance(MaxTurns)
    \/ LlmReply
    \/ ToolResult
    \/ OpeningReply
    \/ LoopExit

Spec == Init /\ [][Next]_vars

\* A session that greeted and then answered calls - 1 utterances without a
\* completion signal: the state those calls of get_greeting and
\* handle_utterance leave behind.
RECURSIVE PriorSession(_)
PriorSession(calls) ==
    IF calls = 0 THEN NewSession(WfMinimal, ToolsNoCalendar)
    ELSE LET s == PriorSession(calls - 1)
             user_text == IF calls = 1 THEN Plain(GREETING_PROMPT)
                          ELSE Plain(<<"said", ToString(calls)>>)
             reply == Plain(<<"answered", ToString(calls)>>)
             s1 == IF calls = 1 THEN s
                   ELSE _emit_event(s, "stt", [text |-> user_text])
         IN  _call_llm_end(_call_llm_begin(s1, user_text), user_text, reply)

\* The turn controller goes on with a session that has a long history.
InitHistory ==
    /\ workflow = WfMinimal
    /\ \E calls \in (MaxPriorCalls - 2)..MaxPriorCalls :
          session = PriorSession(calls)
    /\ paused = TRUE
    /\ pc = "idle"
    /\ frame = NoFrame
    /\ ret = NoRet
    /\ ctl = "running"
    /\ registered = TRUE
    /\ last_call = "none"
    /\ call_mark = Len(session.bc.event_log)
    /\ call_entry = Core(session)
    /\ was_blocked = FALSE
    /\ turns = 0 /\ pauses = 0 /\ resumes = 0
    /\ tool_done = 0
    /\ tool_outcome = "none"
    /\ llm_failed = FALSE
    /\ InitGhostBc /\ InitRoute /\ InitAudio

NextHistory == Utterance(MaxTurns) \/ LlmReply \/ OpeningReply \/ LoopExit

SpecHistory == InitHistory /\ [][NextHistory]_vars

\* The same on workflows whose tool states do not route every outcome.
InitTools ==
    InitSession({WfTools, WfToolStay, WfToolSpin})
        /\ InitGhostBc /\ InitRoute /\ InitAudio

SpecTools == InitTools /\ [][Next]_vars

\* The session driven by the turn controller while the operator pauses and
\* resumes it.
NextPause ==
    \/ GetGreeting
    \/ GreetingReply
    \/ Utterance(MaxPausedTurns)
    \/ Wake
    \/ LlmReply
    \/ ToolResult
    \/ OpeningReply
    \/ Pause
    \/ Resume
    \/ LoopExit

SpecPause == Init /\ [][NextPause]_vars

\* The same while the call may be ended from outside the session: the
\* hangup message and the finally block of handle_signaling_ws, and the
\* dead-transport branches of the voice loop, assign _done; the loop then
\* leaves at its next test of is_done, or its task is cancelled at the await
\* it is suspended in.
\* `sched_session._done = True` with nothing else of the session touched
hangup_clears(s) == [s EXCEPT !.done = TRUE, !.step_data = EmptyDict]

hangup(s) == [s EXCEPT !.done = TRUE]

Hangup ==
    /\ ctl \in {"start", "running"} /\ registered
    /\ session' = hangup(session)
    /\ ctl' = IF pc = "idle" THEN "hangup" ELSE "cancel"
    /\ UNCHANGED <<workflow, paused, pc, frame, ret, registered, last_call,
                   call_mark, call_entry, was_blocked, turns, pauses, resumes,
                   tool_done, tool_outcome, llm_failed>>
    /\ UNCHANGED <<ghostBcVars, routeVars, audioVars>>

\* the loop returns, or voice_task.cancel() ends the call in flight
HangupExit ==
    /\ ctl \in {"hangup", "cancel"}
    /\ ctl' = "exited"
    /\ registered' = FALSE
    /\ pc' = "idle"
    /\ frame' = NoFrame
    /\ ret' = IF pc = "idle" THEN ret
              ELSE [kind |-> "cancelled", value |-> Plain(<<>>)]
    /\ UNCHANGED <<workflow, session, paused, last_call, call_mark, call_entry,
                   was_blocked, turns, pauses, resumes, tool_done,
                   tool_outcome, llm_failed>>
    /\ UNCHANGED <<ghostBcVars, routeVars, audioVars>>

NextCall ==
    \/ NextPause
    \/ Hangup
    \/ HangupExit

SpecCall == Init /\ [][NextCall]_vars

\* ------------------------------------------------- signaling connection
\* handle_signaling_ws (gateway/server.py): one signaling WebSocket.  The
\* objects the handler creates are numbered in the order of the offers:
\* rtc[i] is the WebRTC Session of offer i, done[i] the _done flag of its
\* scheduling session, task[i] its voice loop task, registered[i] whether
\* that session is in _active_sessions.  session, sched_session and
\* voice_task are the handler's locals (0 for None).
MaxOffers == 3
Offers == 1..MaxOffers

NewSignaling ==
    [at |-> "signaling", conn |-> "open", ice_servers |-> FALSE, sent |-> "none",
     offers |-> 0, session |-> 0, sched_session |-> 0, voice_task |-> 0,
     rtc |-> [i \in Offers |-> "none"],
     done |-> [i \in Offers |-> FALSE],
     task |-> [i \in Offers |-> "none"],
     registered |-> [i \in Offers |-> FALSE]]

InitSignaling ==
    /\ InitOneSession
    /\ InitGhostBc
    /\ InitRoute
    /\ loop = NoLoop
    /\ reg = NoReg
    /\ store = NoStore
    /\ chan = NewSignaling

\* asyncio.Task.done()
TaskDone(c, i) == c.task[i] \in {"finished", "cancelled"}

\* `if sched_session: sched_session._done = True`
MarkDone(c) ==
    IF c.sched_session # 0 THEN [c EXCEPT !.done[c.sched_session] = TRUE] ELSE c

\* `if session: await session.close()`
CloseSession(c) ==
    IF c.session # 0 THEN [c EXCEPT !.rtc[c.session] = "closed"] ELSE c

\* the `finally` of handle_signaling_ws
signaling_cleanup(c) ==
    LET c1 == MarkDone(c)
        c2 == IF c1.voice_task # 0 /\ ~TaskDone(c1, c1.voice_task)
              THEN [c1 EXCEPT !.task[c1.voice_task] = "cancel_requested"]
              ELSE c1
    IN  [CloseSession(c2) EXCEPT !.conn = "closed"]

\* the webrtc_offer branch; outcome is where the branch leaves its try blocks
webrtc_offer(c, outcome) ==
    LET n == c.offers + 1
    IN  IF outcome = "no_sdp" THEN [c EXCEPT !.sent = "error"]
        ELSE LET c1 == [c EXCEPT !.offers = n, !.session = n, !.rtc[n] = "open"]
             IN  IF outcome = "offer_failed" THEN [c1 EXCEPT !.sent = "error"]
                 ELSE IF outcome = "loop_failed"
                      THEN [c1 EXCEPT !.sent = "webrtc_answer"]
                      ELSE [c1 EXCEPT !.sent = "webrtc_answer",
                                      !.sched_session = n,
                                      !.voice_task = n,
                                      !.task[n] = "pending"]

\* the hangup branch; waited is how `wait_for(voice_task, timeout=1.0)` ends
signaling_hangup(c, waited) ==
    LET c1 == MarkDone(c)
        t == c1.voice_task
    IN  IF t # 0 /\ ~TaskDone(c1, t) /\ waited = "raised"
        THEN signaling_cleanup([c1 EXCEPT !.task[t] = "finished",
                                          !.registered[t] = FALSE])
        ELSE LET c2 == IF t # 0 /\ ~TaskDone(c1, t)
                       THEN [c1 EXCEPT
                               !.task[t] = IF waited = "returned"
                                           THEN "finished" ELSE "cancelled",
                               !.registered[t] = FALSE,
                               !.voice_task = 0]
                       ELSE c1
                 c3 == IF c2.session # 0
                       THEN [CloseSession(c2) EXCEPT !.session = 0]
                       ELSE c2
             IN  [c3 EXCEPT !.sched_session = 0]

SignalingStep(c) ==
    /\ chan.at = "signaling"
    /\ chan' = c
    /\ UNCHANGED <<sessionVars, ghostBcVars, routeVars, loop, reg, store>>

\* a message of the client is handled
SigHello ==
    /\ chan.conn = "open"
    /\ SignalingStep([chan EXCEPT !.ice_servers = TRUE, !.sent = "hello_ack"])

SigOffer ==
    /\ chan.conn = "open"
    /\ chan.offers < MaxOffers
    /\ \E outcome \in {"no_sdp", "offer_failed", "loop_failed", "ok"} :
          SignalingStep(webrtc_offer(chan, outcome))

SigHangup ==
    /\ chan.conn = "open"
    /\ \E waited \in {"returned", "timeout", "raised"} :
          SignalingStep(signaling_hangup(chan, waited))

SigPing ==
    /\ chan.conn = "open"
    /\ SignalingStep([chan EXCEPT !.sent = "pong"])

\* invalid JSON or an unknown message type
SigUnknown ==
    /\ chan.conn = "open"
    /\ SignalingStep([chan EXCEPT !.sent = "error"])

\* WebSocketDisconnect or another exception of the receive loop
SigDisconnect ==
    /\ chan.conn = "open"
    /\ SignalingStep(signaling_cleanup(chan))

\* the first step of a voice loop task: _start_voice_loop registers the session
VoiceTaskStarts ==
    \E i \in Offers :
        /\ chan.task[i] = "pending"
        /\ SignalingStep([chan EXCEPT !.task[i] = "running",
                                      !.registered[i] = TRUE])

\* a voice loop ends by itself (the caller is gone, the session is done, or
\* an exception escapes); its `finally` unregisters the session
VoiceTaskEnds ==
    \E i \in Offers, marks \in BOOLEAN :
        /\ chan.task[i] = "running"
        /\ SignalingStep([chan EXCEPT !.task[i] = "finished",
                                      !.registered[i] = FALSE,
                                      !.done[i] = @ \/ marks])

\* the CancelledError of voice_task.cancel() is delivered
VoiceTaskCancelled ==
    \E i \in Offers :
        /\ chan.task[i] = "cancel_requested"
        /\ SignalingStep([chan EXCEPT !.task[i] = "cancelled",
                                      !.registered[i] = FALSE])

NextSignaling ==
    \/ SigHello
    \/ SigOffer
    \/ SigHangup
    \/ SigPing
    \/ SigUnknown
    \/ SigDisconnect
    \/ VoiceTaskStarts
    \/ VoiceTaskEnds
    \/ VoiceTaskCancelled

SpecSignaling == InitSignaling /\ [][NextSignaling]_vars

\* ---------------------------------------------------------------- routing
\* One call of _resolve_transition on a session in state a, as the unit
\* tests of tests/test_branching_fsm.py make it, over the transition tables
\* with keys "next" and "*" drawn from RouteTargets.
RouteTargets ==
    {<<>>, EXIT, EXIT \o <<":", "Bye!">>, EXIT \o <<":">>,
     EXIT \o <<":", "Bye", ":", "now">>,
     sB, sB \o <<":", "Moving on">>, sGhost}

RouteOptions == {None} \cup {Some(target) : target \in RouteTargets}
RouteIntents == {"next", "other"}

RouteTransitions(tn, tw) ==
    [k \in {key \in {"next", WILDCARD} :
                (key = "next" /\ tn # None) \/ (key = WILDCARD /\ tw # None)} |->
        IF k = "next" THEN tn[1] ELSE tw[1]]

RouteWorkflow(tn, tw) ==
    WorkflowDef("route", sA, <<"Goodbye!">>, ParseStates({
        LlmState(sA, RouteTransitions(tn, tw), <<>>, EmptyDict),
        LlmState(sB, [next |-> EXIT], <<>>, EmptyDict)}))

InitR ==
    /\ InitSession({RouteWorkflow(tn, tw) : tn \in RouteOptions, tw \in RouteOptions})
    /\ InitGhostBc
    /\ \E intent \in RouteIntents : r_in = [at |-> "ready", intent |-> intent]
    /\ r_out = NoRoute
    /\ InitAudio

\* session._resolve_transition(state, intent), then the goodbye message as
\* _handle_llm_step computes it
Resolve ==
    /\ r_in.at = "ready" /\ r_out.at = "none"
    /\ LET state == _current_state(workflow, session)[1]
           rt == _resolve_transition(workflow, session, state, r_in.intent)
       IN  /\ session' = rt.s
           /\ r_out' = [at |-> "resolved",
                        next |-> rt.next,
                        before |-> Core(session),
                        log_before |-> Len(session.bc.event_log),
                        exit_msg |-> ExitMessage(workflow, state, r_in.intent)]
    /\ UNCHANGED <<controlVars, ghostBcVars, r_in, audioVars>>

NextR == Resolve

SpecR == InitR /\ [][NextR]_vars

\* ------------------------------------------------------------ broadcaster
\* The broadcaster of one session under emit, subscribe, unsubscribe, the
\* reads of the debug stream and event_log.  Emitted events are numbered
\* in their data, as in test_queue_overflow_drops_oldest.
Payload(n) == [text |-> n]

\* The initial states: a fresh broadcaster, and one whose first subscriber
\* has left maxsize - 1 events unread.
PrefillSizes == {0, maxsize - 1}

\* q = b.subscribe(); for i in range(k): b.emit("stt", state_id, {"text": i})
\* on a new broadcaster: no put finds the queue full, so the log and the
\* queue both hold the k events.
Prefilled(state_id, k) ==
    IF k = 0 THEN NewBroadcaster
    ELSE LET events == [i \in 1..k |-> DebugEvent("stt", state_id, Payload(i))]
         IN  [event_log |-> events,
              subscribers |-> <<"q1">>,
              queues |-> [q \in QueueIds |-> IF q = "q1" THEN events ELSE <<>>]]

InitB ==
    /\ workflow = WfMinimal
    /\ \E k \in PrefillSizes :
          /\ session = [NewSession(workflow, ToolsNoCalendar) EXCEPT
                           !.bc = Prefilled(workflow.initial_state, k)]
          /\ emitted = [i \in 1..k |->
                           DebugEvent("stt", workflow.initial_state, Payload(i))]
          /\ sub = [q \in QueueIds |->
                       IF q = "q1" /\ k > 0
                       THEN [state |-> "subscribed", from |-> 0, to |-> 0]
                       ELSE NoSub]
    /\ InitControl
    /\ read = [q \in QueueIds |-> <<>>]
    /\ full_at = [q \in QueueIds |-> 0]
    /\ returned = NoReturned
    /\ emits = 0
    /\ InitRoute
    /\ InitAudio

\* session._emit_event -> broadcaster.emit
BEmit ==
    /\ emits < MaxEmit
    /\ LET n == Len(emitted) + 1
       IN  /\ session' = _emit_event(session, "stt", Payload(n))
           /\ emitted' = Append(emitted,
                             DebugEvent("stt", session.current_step_id, Payload(n)))
    /\ full_at' = [q \in QueueIds |->
                      IF InList(session.bc.subscribers, q)
                         /\ Len(session.bc.queues[q]) = maxsize
                      THEN full_at[q] + 1
                      ELSE full_at[q]]
    /\ emits' = emits + 1
    /\ UNCHANGED <<controlVars, sub, read, returned, routeVars, audioVars>>

\* debug_stream: queue = broadcaster.subscribe()
BSubscribe(q) ==
    /\ sub[q].state = "new"
    /\ session' = [session EXCEPT !.bc = subscribe(@, q)]
    /\ sub' = [sub EXCEPT ![q] = [state |-> "subscribed", from |-> Len(emitted),
                                  to |-> 0]]
    /\ UNCHANGED <<controlVars, emitted, read, full_at, returned, emits, routeVars, audioVars>>

\* debug_stream: finally broadcaster.unsubscribe(queue); a second
\* unsubscribe of the same queue is the ValueError branch.
BUnsubscribe(q) ==
    /\ sub[q].state # "new"
    /\ session' = [session EXCEPT !.bc = unsubscribe(@, q)]
    /\ sub' = [sub EXCEPT ![q] =
                  IF @.state = "subscribed"
                  THEN [@ EXCEPT !.state = "unsubscribed", !.to = Len(emitted)]
                  ELSE @]
    /\ UNCHANGED <<controlVars, emitted, read, full_at, returned, emits, routeVars, audioVars>>

\* debug_stream: event = await queue.get()
BRead(q) ==
    /\ sub[q].state # "new"
    /\ Len(read[q]) < MaxReads
    /\ session.bc.queues[q] # <<>>
    /\ read' = [read EXCEPT ![q] = Append(@, Head(session.bc.queues[q]))]
    /\ session' = [session EXCEPT !.bc.queues[q] = Tail(@)]
    /\ UNCHANGED <<controlVars, emitted, sub, full_at, returned, emits, routeVars, audioVars>>

\* log1 = b.event_log
BEventLog ==
    /\ ~returned.held
    /\ returned' = [list |-> event_log_copy(session.bc).list,
                    aliased |-> event_log_copy(session.bc).aliased,
                    held |-> TRUE]
    /\ UNCHANGED <<sessionVars, emitted, sub, read, full_at, emits, routeVars, audioVars>>

\* log1.clear(): clears the log too when log1 is the log itself
BClearReturned ==
    /\ returned.held /\ returned.list # <<>>
    /\ returned' = [returned EXCEPT !.list = <<>>]
    /\ session' = IF returned.aliased
                  THEN [session EXCEPT !.bc.event_log = <<>>]
                  ELSE session
    /\ UNCHANGED <<controlVars, emitted, sub, read, full_at, emits, routeVars, audioVars>>

NextB ==
    \/ BEmit
    \/ \E q \in QueueIds : BSubscribe(q)
    \/ \E q \in QueueIds : BUnsubscribe(q)
    \/ \E q \in QueueIds : BRead(q)
    \/ BEventLog
    \/ BClearReturned

SpecB == InitB /\ [][NextB]_vars

\* ------------------------------------------------------------- voice loop
\* One call's turn controller: _start_voice_loop (WebRTC) and twilio_stream
\* (Twilio).  The session is seen through its interface only: get_greeting
\* and handle_utterance return a reply or raise, and handle_utterance may
\* leave is_done true.  A mic frame is [id, rms]; the WebRTC track delivers
\* FRAMES_PER_POLL frames of one level per batch.

FRAMES_PER_POLL == 5
FRAME_BYTES == 1920        \* 20 ms of 48 kHz int16
MIN_AUDIO == 9600
MAX_BUFFER == 2880000      \* 48000 * 2 * 30
NO_FRAMES_LIMIT == 100
TAIL_FRAMES == 15          \* FRAMES_PER_POLL * 3

TWILIO_FRAME_BYTES == 640  \* 20 ms of 16 kHz int16
TWILIO_MIN_AUDIO == 3200
TWILIO_MAX_BUFFER == 960000  \* 16000 * 2 * 30
SILENCE_THRESHOLD == 500
SILENCE_GAP_FRAMES == 30

\* the duration _speak returns, in 100 ms polls
PlaybackPolls == {2}

\* _compute_rms of the frames of a batch: silence, or speech above both the
\* VAD and the barge-in threshold
FrameLevels == {0, 2000}

\* scheduling.config.runtime_settings with the values it starts with; the
\* admin API may switch barge-in off
runtime_settings(barge_in_enabled) ==
    [barge_in_enabled |-> barge_in_enabled,
     barge_in_energy_threshold |-> 600,
     barge_in_confirm_frames |-> 2,
     vad_energy_threshold |-> 300,
     vad_speech_confirm_frames |-> 1,
     vad_silence_gap |-> 8]

\* list[-n:] for n > 0
LastFrames(frames, n) ==
    IF Len(frames) <= n THEN frames
    ELSE SubSeq(frames, Len(frames) - n + 1, Len(frames))

\* max(_compute_rms(f) for f in frames), 0 for no frame
MaxRms(frames) ==
    IF frames = <<>> THEN 0
    ELSE CHOOSE m \in {frames[i].rms : i \in 1..Len(frames)} :
             \A i \in 1..Len(frames) : frames[i].rms <= m

Sids == {"s1", "s2"}
DebugClients == {"d1", "d2"}

\* _active_sessions and _broadcasters
NewRegistry == [sessions |-> {}, broadcasters |-> {}]

\* register_session, then get_broadcaster(sid) for attach_broadcaster
register_session(r, sid) ==
    [r EXCEPT !.sessions = @ \cup {sid}]

get_broadcaster(r, sid) ==
    [r EXCEPT !.broadcasters = @ \cup {sid}]

\* an unregister that leaves the entry in place
UnregisterKeeps(r, sid) == r

unregister_session(r, sid) ==
    [r EXCEPT !.sessions = @ \ {sid}]

remove_broadcaster(r, sid) ==
    [r EXCEPT !.broadcasters = @ \ {sid}]

\* the finally block of _start_voice_loop, and that of twilio_stream, where
\* sid is None before registration
Finally(r, transport, sid, has_sid) ==
    IF transport = "webrtc" THEN unregister_session(r, sid)
    ELSE IF has_sid THEN unregister_session(remove_broadcaster(r, sid), sid)
    ELSE r

NewLoop(transport, settings) ==
    [transport |-> transport,
     sid |-> "s1",
     has_sid |-> FALSE,
     settings |-> settings,
     at |-> "connecting",
     after |-> "none",
     exit |-> "none",
     done |-> FALSE,
     cancel |-> "none",
     mic |-> <<>>,
     has_speech |-> FALSE,
     silence_count |-> 0,
     speech_confirm_count |-> 0,
     no_frames_count |-> 0,
     play_left |-> 0,
     BARGE_IN_THRESHOLD |-> 0,
     BARGE_IN_CONFIRM |-> 0,
     barge_confirm |-> 0,
     interrupted |-> FALSE,
     stop_speaking |-> 0,
     pcm |-> <<>>,
     audio_buffer |-> 0,
     silence_frames |-> 0,
     overflow |-> FALSE,
     \* history
     arrived |-> 0,
     idle |-> 0,
     done_returned |-> FALSE,
     late_stt |-> FALSE,
     late_call |-> FALSE,
     preserved |-> <<>>,
     barged |-> "none",
     endpoint |-> FALSE,
     heard |-> FALSE,
     loud_polls |-> 0,
     ep |-> [speech |-> FALSE, silence |-> 0, bytes |-> 0, left |-> 0]]

\* leaving the coroutine: its locals are gone, the finally block has run
Exited(l, why) ==
    [NewLoop(l.transport, l.settings) EXCEPT !.at = "exited",
                                             !.exit = why,
                                             !.has_sid = l.has_sid,
                                             !.done = l.done]

\* a transcription request (_transcribe_webrtc / _transcribe)
SttRequested(l) == [l EXCEPT !.late_stt = @ \/ l.done_returned]

\* one iteration of the WebRTC VAD loop, lines 322-427, up to its first
\* await after the sleep
VadPoll(l) ==
    LET s == l.settings
        polled == [l EXCEPT !.idle = IF @ < NO_FRAMES_LIMIT THEN @ + 1 ELSE @]
    IN
    IF l.mic = <<>>
    THEN IF l.no_frames_count + 1 >= NO_FRAMES_LIMIT
         THEN Exited([polled EXCEPT !.no_frames_count = @ + 1, !.done = TRUE],
                     "dead")
         ELSE [polled EXCEPT !.no_frames_count = @ + 1]
    ELSE
    LET rms == l.mic[Len(l.mic)].rms
        loud == rms >= s.vad_energy_threshold
        confirm == IF loud THEN l.speech_confirm_count + 1 ELSE 0
        speech == IF loud /\ ~l.has_speech /\ confirm >= s.vad_speech_confirm_frames
                  THEN TRUE ELSE l.has_speech
        silence == IF loud THEN 0 ELSE l.silence_count + 1
        total == Len(l.mic) * FRAME_BYTES
        counted == [polled EXCEPT !.no_frames_count = 0,
                                  !.speech_confirm_count = confirm,
                                  !.has_speech = speech,
                                  !.silence_count = silence]
        cleared == [counted EXCEPT !.mic = <<>>,
                                   !.has_speech = FALSE,
                                   !.silence_count = 0,
                                   !.speech_confirm_count = 0]
    IN  IF speech /\ silence >= s.vad_silence_gap /\ total > MIN_AUDIO
        THEN SttRequested([cleared EXCEPT !.pcm = l.mic, !.at = "stt", !.idle = 0,
                                          !.endpoint = l.barged # "none",
                                          !.ep = [speech |-> speech,
                                                  silence |-> silence,
                                                  bytes |-> total,
                                                  left |-> Len(cleared.mic)]])
        ELSE IF total > MAX_BUFFER
        THEN cleared
        ELSE counted

\* what follows `interrupted = await _wait_for_playback(...)`: after the
\* greeting the wait for the mic track, after a reply the next loop iteration
PlaybackReturned(l, interrupted) ==
    LET back == [l EXCEPT !.play_left = 0, !.barge_confirm = 0,
                          !.BARGE_IN_THRESHOLD = 0, !.BARGE_IN_CONFIRM = 0,
                          !.stop_speaking = 0, !.loud_polls = 0]
    IN  IF l.after = "greeting"
        THEN [back EXCEPT !.at = "track", !.interrupted = interrupted]
        ELSE [back EXCEPT !.at = "poll",
                          !.after = "none",
                          !.has_speech = interrupted,
                          !.silence_count = 0,
                          !.speech_confirm_count = 0]

\* a playback poll that clears the buffer when it confirms a barge-in
PlaybackPollClears(l) ==
    LET s == l.settings
        slept == [l EXCEPT !.play_left = @ - 1]
        rms == MaxRms(LastFrames(l.mic, FRAMES_PER_POLL))
        confirm == l.barge_confirm + 1
    IN  IF ~s.barge_in_enabled \/ l.mic = <<>> THEN slept
        ELSE IF rms < l.BARGE_IN_THRESHOLD
        THEN [slept EXCEPT !.barge_confirm = 0]
        ELSE IF confirm < l.BARGE_IN_CONFIRM
        THEN [slept EXCEPT !.barge_confirm = confirm]
        ELSE SttRequested(
                 [slept EXCEPT !.barge_confirm = confirm,
                               !.stop_speaking = 1,
                               !.mic = <<>>,
                               !.preserved =
                                   LastFrames(l.mic, (confirm + 1) * FRAMES_PER_POLL),
                               !.barged = "confirmed",
                               !.at = "bargelog"])

\* a playback poll that keeps its count over a poll below the threshold
PlaybackPollNoReset(l) ==
    LET s == l.settings
        slept == [l EXCEPT !.play_left = @ - 1]
        rms == MaxRms(LastFrames(l.mic, FRAMES_PER_POLL))
        confirm == l.barge_confirm + 1
        kept == LastFrames(l.mic, (confirm + 1) * FRAMES_PER_POLL)
    IN  IF ~s.barge_in_enabled \/ l.mic = <<>> \/ rms < l.BARGE_IN_THRESHOLD
        THEN slept
        ELSE IF confirm < l.BARGE_IN_CONFIRM
        THEN [slept EXCEPT !.barge_confirm = confirm]
        ELSE SttRequested(
                 [slept EXCEPT !.barge_confirm = confirm,
                               !.stop_speaking = 1,
                               !.mic = kept,
                               !.preserved = kept,
                               !.barged = "confirmed",
                               !.at = "bargelog"])

\* one poll of _wait_for_playback while elapsed < duration, lines 187-228
PlaybackPoll(l) ==
    LET s == l.settings
        slept == [l EXCEPT !.play_left = @ - 1]
    IN
    IF ~s.barge_in_enabled \/ l.mic = <<>> THEN slept
    ELSE
    LET rms == MaxRms(LastFrames(l.mic, FRAMES_PER_POLL))
    IN  IF rms >= l.BARGE_IN_THRESHOLD
        THEN LET confirm == l.barge_confirm + 1
                 frames_to_keep == (confirm + 1) * FRAMES_PER_POLL
                 kept == LastFrames(l.mic, frames_to_keep)
             IN  IF confirm >= l.BARGE_IN_CONFIRM
                 THEN SttRequested(
                          [slept EXCEPT !.barge_confirm = confirm,
                                        !.stop_speaking = 1,
                                        !.mic = kept,
                                        !.preserved = kept,
                                        !.barged = "confirmed",
                                        !.at = "bargelog"])
                 ELSE [slept EXCEPT !.barge_confirm = confirm]
        ELSE [slept EXCEPT !.barge_confirm = 0]

\* the tail check once playback ran to completion, lines 230-250
PlaybackDone(l) ==
    LET tail_rms == MaxRms(LastFrames(l.mic, TAIL_FRAMES))
    IN  IF l.mic # <<>> /\ tail_rms >= l.BARGE_IN_THRESHOLD
        THEN LET kept == LastFrames(l.mic, TAIL_FRAMES)
             IN  SttRequested([l EXCEPT !.mic = kept,
                                        !.preserved = kept,
                                        !.barged = "tail",
                                        !.at = "bargelog"])
        ELSE PlaybackReturned([l EXCEPT !.mic = <<>>], FALSE)

\* _speak, then _wait_for_playback entered with its counters at zero and
\* the barge-in threshold and confirm count read from the settings, lines
\* 176-177
Speak(l, after, polls) ==
    [l EXCEPT !.at = "play", !.after = after, !.play_left = polls,
              !.BARGE_IN_THRESHOLD = l.settings.barge_in_energy_threshold,
              !.BARGE_IN_CONFIRM = l.settings.barge_in_confirm_frames,
              !.barge_confirm = 0, !.stop_speaking = 0, !.loud_polls = 0,
              !.barged = "none", !.preserved = <<>>, !.endpoint = FALSE]

\* one frame of `async for frame in channel.receive_audio()`, lines 161-200,
\* up to its first await
TwilioFrame(l, rms) ==
    LET buffer == l.audio_buffer + TWILIO_FRAME_BYTES
        silence == IF rms < SILENCE_THRESHOLD THEN l.silence_frames + 1 ELSE 0
        \* history: a frame at or above the threshold is in the buffer
        heard == l.heard \/ rms >= SILENCE_THRESHOLD
        requested == [l EXCEPT !.audio_buffer = 0, !.silence_frames = 0,
                               !.at = "stt", !.heard = FALSE,
                               !.ep = [speech |-> heard, silence |-> silence,
                                       bytes |-> buffer, left |-> 0]]
    IN  IF buffer > TWILIO_MIN_AUDIO /\ silence >= SILENCE_GAP_FRAMES
        THEN SttRequested([requested EXCEPT !.overflow = FALSE])
        ELSE IF buffer > TWILIO_MAX_BUFFER
        THEN SttRequested([requested EXCEPT !.overflow = TRUE])
        ELSE [l EXCEPT !.audio_buffer = buffer, !.silence_frames = silence,
                       !.heard = heard]

\* handle_utterance as the loop sees it: a reply, possibly empty, and is_done
HandleOutcomes(l) ==
    IF l.done THEN {[done |-> TRUE, response |-> TRUE]}
    ELSE [done : BOOLEAN, response : BOOLEAN]

\* `response = await handle_utterance(text)` returned, through the speaking
\* of the reply
Handled(l, o, polls) ==
    LET h == [l EXCEPT !.done = o.done, !.done_returned = o.done]
    IN  IF l.transport = "webrtc"
        THEN IF o.response THEN Speak(h, "reply", polls)
             ELSE [h EXCEPT !.at = "poll"]
        ELSE IF ~l.overflow /\ o.done THEN Exited(h, "done")
             ELSE [h EXCEPT !.at = "recv", !.overflow = FALSE]

\* a step of the loop: the registries follow when it exits
LoopStep(l) ==
    /\ loop' = l
    /\ reg' = IF l.at = "exited"
              THEN Finally(reg, l.transport, l.sid, l.has_sid)
              ELSE reg
    /\ UNCHANGED <<sessionVars, ghostBcVars, routeVars, store, chan>>

InitLoop ==
    /\ InitOneSession
    /\ InitGhostBc
    /\ InitRoute
    /\ store = NoStore
    /\ chan = NoChan
    /\ reg = NewRegistry
    /\ \/ \E enabled \in BOOLEAN : loop = NewLoop("webrtc", runtime_settings(enabled))
       \/ loop = NewLoop("twilio", runtime_settings(FALSE))

\* register_session and attach_broadcaster(get_broadcaster(sid))
LStart ==
    /\ loop.at = "connecting"
    /\ loop' = [loop EXCEPT !.at = "greeting", !.has_sid = TRUE]
    /\ reg' = get_broadcaster(register_session(reg, loop.sid), loop.sid)
    /\ UNCHANGED <<sessionVars, ghostBcVars, routeVars, store, chan>>

\* get_greeting returned and the greeting was handed to TTS
LGreeted ==
    /\ loop.at = "greeting"
    /\ IF loop.transport = "webrtc"
       THEN \E polls \in PlaybackPolls :
               LoopStep(Speak([loop EXCEPT !.mic = <<>>], "greeting", polls))
       ELSE LoopStep([loop EXCEPT !.at = "recv"])

\* an await inside the try block raises; on Twilio channel.initialize can
\* raise before the session exists, and receive_audio when the socket fails
LRaise ==
    /\ loop.at \in {"greeting", "stt", "handle"}
          \/ (loop.transport = "twilio" /\ loop.at \in {"connecting", "recv"})
    /\ LoopStep(Exited(loop, "error"))

\* the mic track delivers a batch of frames
LFrameBatch ==
    /\ loop.transport = "webrtc"
    /\ loop.at \in {"play", "bargelog", "track", "poll", "stt", "handle"}
    /\ loop.arrived < MaxBatches
    /\ loop.idle < MaxIdlePolls
    /\ \E rms \in FrameLevels :
          LET n == loop.arrived * FRAMES_PER_POLL
              batch == [i \in 1..FRAMES_PER_POLL |-> [id |-> n + i, rms |-> rms]]
          IN  LoopStep([loop EXCEPT !.mic = @ \o batch,
                                    !.arrived = @ + 1,
                                    !.idle = 0])

\* the wait for the mic track after the greeting, lines 297-316
LTrack ==
    /\ loop.at = "track"
    /\ \E present \in BOOLEAN :
          /\ loop.arrived > 0 => present
          /\ IF present
             THEN LoopStep([loop EXCEPT !.at = "poll",
                                        !.after = "none",
                                        !.interrupted = FALSE,
                                        !.has_speech = loop.interrupted,
                                        !.silence_count = 0,
                                        !.speech_confirm_count = 0,
                                        !.no_frames_count = 0])
             ELSE LoopStep(Exited(loop, "no_track"))

\* `while not scheduling_session.is_done`, the sleep and one iteration
LPoll ==
    /\ loop.at = "poll"
    /\ loop.idle < NO_FRAMES_LIMIT
    /\ IF loop.done THEN LoopStep(Exited(loop, "done"))
       ELSE LoopStep(VadPoll(loop))

\* the peer connection is found closed, failed or disconnected
LPeerDead ==
    /\ loop.at = "poll" /\ ~loop.done
    /\ LoopStep(Exited([loop EXCEPT !.done = TRUE], "peer"))

\* `text = await _transcribe...` returned, with or without text
LTranscribed ==
    /\ loop.at = "stt"
    /\ LET t == [loop EXCEPT !.pcm = <<>>, !.preserved = <<>>,
                             !.barged = "none", !.endpoint = FALSE,
                             !.ep = NewLoop(loop.transport, loop.settings).ep]
       IN  \/ LoopStep([t EXCEPT !.at = "handle",
                                 !.late_call = @ \/ loop.done_returned])
           \/ LoopStep([t EXCEPT !.at = IF loop.transport = "webrtc"
                                        THEN "poll" ELSE "recv",
                                 !.overflow = FALSE])

LHandled ==
    /\ loop.at = "handle"
    /\ \E o \in HandleOutcomes(loop), polls \in PlaybackPolls :
          LoopStep(Handled(loop, o, polls))

\* history: loud_polls counts the polls in a row, up to this one, in which
\* the loudest of the last FRAMES_PER_POLL frames reached the threshold
LPlayPoll ==
    /\ loop.at = "play" /\ loop.play_left > 0
    /\ LET loud == /\ loop.mic # <<>>
                   /\ MaxRms(LastFrames(loop.mic, FRAMES_PER_POLL))
                          >= loop.settings.barge_in_energy_threshold
       IN  LoopStep([PlaybackPoll(loop) EXCEPT
                        !.loud_polls = IF loud THEN @ + 1 ELSE 0])

LPlayDone ==
    /\ loop.at = "play" /\ loop.play_left = 0
    /\ LoopStep(PlaybackDone(loop))

\* _log_barge_in_transcript returned
LBargeLogged ==
    /\ loop.at = "bargelog"
    /\ LoopStep(PlaybackReturned(loop, TRUE))

\* the hangup message: done is set and the loop is awaited for up to 1 s
LHangup ==
    /\ loop.transport = "webrtc"
    /\ loop.at \notin {"connecting", "exited"} /\ loop.cancel = "none"
    /\ loop.idle < MaxIdlePolls
    /\ LoopStep([loop EXCEPT !.done = TRUE, !.cancel = "hangup"])

\* the signaling socket closes: done is set and the loop is cancelled
LDisconnect ==
    /\ loop.transport = "webrtc"
    /\ loop.at \notin {"connecting", "exited"} /\ loop.cancel = "none"
    /\ loop.idle < MaxIdlePolls
    /\ LoopStep([loop EXCEPT !.done = TRUE, !.cancel = "disconnect"])

\* voice_task.cancel() reaches the loop at its current await
LCancelled ==
    /\ loop.cancel # "none" /\ loop.at # "exited"
    /\ LoopStep(Exited(loop, "cancelled"))

LTwilioFrame ==
    /\ loop.transport = "twilio" /\ loop.at = "recv"
    /\ \E rms \in FrameLevels : LoopStep(TwilioFrame(loop, rms))

\* the stop event or the close of the socket ends receive_audio
LTwilioStop ==
    /\ loop.transport = "twilio" /\ loop.at = "recv"
    /\ LoopStep(Exited(loop, "stopped"))

NextLoop ==
    \/ LStart
    \/ LGreeted
    \/ LRaise
    \/ LFrameBatch
    \/ LTrack
    \/ LPoll
    \/ LPeerDead
    \/ LTranscribed
    \/ LHandled
    \/ LPlayPoll
    \/ LPlayDone
    \/ LBargeLogged
    \/ LHangup
    \/ LDisconnect
    \/ LCancelled
    \/ LTwilioFrame
    \/ LTwilioStop

SpecLoop == InitLoop /\ [][NextLoop]_vars

\* The playback of a greeting of three or four polls, from the return of
\* _speak to the return of _wait_for_playback.
LongPlayback == {3, 4}

InitPlayback ==
    /\ InitOneSession
    /\ InitGhostBc
    /\ InitRoute
    /\ store = NoStore
    /\ chan = NoChan
    /\ reg = get_broadcaster(register_session(NewRegistry, "s1"), "s1")
    /\ \E enabled \in BOOLEAN, polls \in LongPlayback :
          loop = Speak([NewLoop("webrtc", runtime_settings(enabled))
                           EXCEPT !.has_sid = TRUE],
                       "greeting", polls)

NextPlayback ==
    \/ LFrameBatch
    \/ LPlayPoll
    \/ LPlayDone
    \/ LBargeLogged
    \/ LTrack

SpecPlayback == InitPlayback /\ [][NextPlayback]_vars

\* The same playback and the listening that follows it while the admin
\* surface changes the runtime settings.
MaxConfigs == 1

ConfigBodies ==
    {[barge_in_enabled |-> FALSE],
     [barge_in_enabled |-> TRUE],
     [barge_in_energy_threshold |-> 3000],
     [barge_in_confirm_frames |-> 1],
     [vad_energy_threshold |-> 3000],
     [vad_silence_gap |-> 1, vad_speech_confirm_frames |-> 2],
     [bogus |-> 1]}

\* update_config, app.py lines 237-245: the keys runtime_settings has
update_config(settings, body) ==
    [k \in DOMAIN settings |-> IF k \in DOMAIN body THEN body[k] ELSE settings[k]]

InitLive ==
    /\ InitOneSession
    /\ InitGhostBc
    /\ InitRoute
    /\ store = [at |-> "config", configs |-> 0]
    /\ chan = NoChan
    /\ reg = get_broadcaster(register_session(NewRegistry, "s1"), "s1")
    /\ loop = Speak([NewLoop("webrtc", runtime_settings(TRUE))
                        EXCEPT !.has_sid = TRUE],
                    "greeting", 3)

\* POST /api/config
LConfig ==
    /\ store.configs < MaxConfigs
    /\ loop.at # "exited"
    /\ \E body \in ConfigBodies :
          loop' = [loop EXCEPT !.settings = update_config(@, body)]
    /\ store' = [store EXCEPT !.configs = @ + 1]
    /\ UNCHANGED <<sessionVars, ghostBcVars, routeVars, reg, chan>>

LiveStep(A) ==
    /\ A
    /\ UNCHANGED store

NextLive ==
    \/ LiveStep(LFrameBatch)
    \/ LiveStep(LPlayPoll)
    \/ LiveStep(LPlayDone)
    \/ LiveStep(LBargeLogged)
    \/ LiveStep(LTrack)
    \/ LiveStep(loop.idle < MaxIdlePolls /\ LPoll)
    \/ LConfig

SpecLive == InitLive /\ [][NextLive]_vars

\* A call whose caller has been speaking without a pause for almost 30 s:
\* the WebRTC mic buffer holds NearFull frames above the threshold and the
\* loop is listening with has_speech set; on Twilio audio_buffer holds as
\* many 20 ms frames.
NearFull == {1490, 1495, 1500}

LongSpeech(n) == [i \in 1..n |-> [id |-> i - n, rms |-> 2000]]

InitOverflow ==
    /\ InitOneSession
    /\ InitGhostBc
    /\ InitRoute
    /\ store = NoStore
    /\ chan = NoChan
    /\ reg = get_broadcaster(register_session(NewRegistry, "s1"), "s1")
    /\ \E n \in NearFull :
          \/ loop = [NewLoop("webrtc", runtime_settings(FALSE))
                        EXCEPT !.at = "poll", !.has_sid = TRUE,
                               !.has_speech = TRUE,
                               !.speech_confirm_count = n \div FRAMES_PER_POLL,
                               !.mic = LongSpeech(n)]
          \/ loop = [NewLoop("twilio", runtime_settings(FALSE))
                        EXCEPT !.at = "recv", !.has_sid = TRUE,
                               !.heard = TRUE,
                               !.audio_buffer = n * TWILIO_FRAME_BYTES]

NextOverflow ==
    \/ LRaise
    \/ LFrameBatch
    \/ LPoll
    \/ LTranscribed
    \/ LHandled
    \/ LPlayPoll
    \/ LPlayDone
    \/ LBargeLogged
    \/ LTwilioFrame
    \/ LTwilioStop

SpecOverflow == InitOverflow /\ [][NextOverflow]_vars

\* -------------------------------------------------------------- registries
\* Calls on both transports and debug-stream clients sharing the two global
\* registries.  A call registers, runs its loop and leaves through its
\* finally block; debug_stream looks the session up, awaits accept(), then
\* get_broadcaster(session_id).

NoCall == [at |-> "none", transport |-> "none"]
NoDebug == [at |-> "none", sid |-> "none"]

InitReg ==
    /\ InitOneSession
    /\ InitGhostBc
    /\ InitRoute
    /\ loop = NoLoop
    /\ store = NoStore
    /\ chan = NoChan
    /\ reg = [sessions |-> {},
              broadcasters |-> {},
              calls |-> [sid \in Sids |-> NoCall],
              debug |-> [d \in DebugClients |-> NoDebug]]

RegStep(r) ==
    /\ reg' = r
    /\ UNCHANGED <<sessionVars, ghostBcVars, routeVars, loop, store, chan>>

\* register_session and attach_broadcaster(get_broadcaster(sid))
RCallStart(sid, transport) ==
    /\ reg.calls[sid].at = "none"
    /\ RegStep([get_broadcaster(register_session(reg, sid), sid)
                   EXCEPT !.calls[sid] = [at |-> "running", transport |-> transport]])

\* the loop of the call ends, by any of its exits
RCallExit(sid) ==
    /\ reg.calls[sid].at = "running"
    /\ RegStep([Finally(reg, reg.calls[sid].transport, sid, TRUE)
                   EXCEPT !.calls[sid].at = "exited"])

\* debug_stream up to `await websocket.accept()`: an unknown session id
\* closes the socket with 4004
RDebugOpen(d, sid) ==
    /\ reg.debug[d].at = "none"
    /\ IF sid \in reg.sessions
       THEN RegStep([reg EXCEPT !.debug[d] = [at |-> "accepting", sid |-> sid]])
       ELSE RegStep([reg EXCEPT !.debug[d] = [at |-> "refused", sid |-> sid]])

\* accept() returned: get_broadcaster, attach_broadcaster, subscribe
RDebugAttach(d) ==
    /\ reg.debug[d].at = "accepting"
    /\ RegStep([get_broadcaster(reg, reg.debug[d].sid)
                   EXCEPT !.debug[d].at = "streaming"])

\* the debug socket closes: unsubscribe
RDebugClose(d) ==
    /\ reg.debug[d].at = "streaming"
    /\ RegStep([reg EXCEPT !.debug[d].at = "closed"])

NextReg ==
    \/ \E sid \in Sids, t \in {"webrtc", "twilio"} : RCallStart(sid, t)
    \/ \E sid \in Sids : RCallExit(sid)
    \/ \E d \in DebugClients, sid \in Sids : RDebugOpen(d, sid)
    \/ \E d \in DebugClients : RDebugAttach(d)
    \/ \E d \in DebugClients : RDebugClose(d)

SpecReg == InitReg /\ [][NextReg]_vars

\* ---------------------------------------------------------- workflow store
\* _workflows[WORKFLOW_DEF.id] under load_workflow_jsonl at start-up,
\* PATCH /api/workflow/{id}/states/{state_id} and PUT /api/workflow/{id}.

\* The initial state names no state.
WfNoInitial ==
    WorkflowDef("noinitial", sGhost, <<"Goodbye!">>, ParseStates({
        LlmState(sA, [next |-> EXIT], <<>>, EmptyDict)}))

\* Two states that only lead to each other.
WfNoExit ==
    WorkflowDef("noexit", sA, <<"Goodbye!">>, ParseStates({
        LlmState(sA, [next |-> sB], <<>>, EmptyDict),
        LlmState(sB, [next |-> sA], <<>>, EmptyDict)}))

\* A request body or file line: JSON that fits the pydantic models, or not
TypedBody(wf) == [typed |-> TRUE, data |-> wf]
IllTypedBody == [typed |-> FALSE]
WorkflowBodies ==
    {TypedBody(wf) : wf \in {WfMinimal, WfToolFirst, WfDangling, WfNoInitial, WfNoExit}}
        \cup {IllTypedBody}

\* _parse_workflow: the states dict and the workflow model are built as
\* given; only pydantic's type check can raise
_parse_workflow(body) ==
    IF body.typed
    THEN [raised |-> FALSE,
          wf |-> WorkflowDef(body.data.id, body.data.initial_state,
                             body.data.exit_message, body.data.states)]
    ELSE [raised |-> TRUE]

\* PATCH bodies: key -> new value
PatchBodies ==
    {[transitions |-> [next |-> sB]],
     [transitions |-> [next |-> sGhost]],
     [transitions |-> [next |-> EXIT]],
     [transitions |-> [next |-> sA], auto_intent |-> "error"],
     [id |-> sGhost],
     [id |-> sGhost, auto_intent |-> "error"],
     [bogus |-> "x"],
     [model_config |-> "x"],
     [model_config |-> "x", auto_intent |-> "error"]}

PatchStateIds == {sA, sB, sGhost}

\* attributes every state object has besides its declared fields (the
\* pydantic class attributes); hasattr is true of them
ClassAttrs == {"model_config", "model_fields"}

\* the keys update_workflow_state passes to setattr:
\* hasattr(state, key) and key != "id"
UpdatedKeys(state, body) ==
    (DOMAIN body \cap (DOMAIN state \cup ClassAttrs)) \ {"id"}

\* the outcomes of setattr on an attribute that is no declared field: the
\* model library either stores the value on the object or raises
SetattrOutcomes == {"assigned", "raised"}

\* update_workflow_state, lines 576-597.  lib is the outcome of setattr on a
\* non-field attribute; applied is the set of keys assigned before a raise
\* (the keys that precede the raising one in the body).
update_workflow_state(wf, state_id, body, lib, applied) ==
    IF state_id \notin DOMAIN wf.states
    THEN [status |-> 404, wf |-> wf]
    ELSE LET state == wf.states[state_id]
             updated == UpdatedKeys(state, body)
             raises == lib = "raised" /\ updated \cap ClassAttrs # {}
             set == IF raises THEN applied \cap (updated \ ClassAttrs)
                    ELSE updated
             patched == [k \in DOMAIN state \cup set |->
                            IF k \in set THEN body[k] ELSE state[k]]
         IN  IF raises
             THEN [status |-> 500,
                   wf |-> [wf EXCEPT !.states[state_id] = patched]]
             ELSE IF updated = {}
             THEN [status |-> 400, wf |-> wf]
             ELSE [status |-> 200,
                   wf |-> [wf EXCEPT !.states[state_id] = patched]]

\* save_workflow, lines 599-626
save_workflow(wf, body) ==
    LET parsed == _parse_workflow(body)
    IN  IF parsed.raised THEN [status |-> 400, wf |-> wf]
        ELSE [status |-> 200, wf |-> parsed.wf]

InitStore ==
    /\ InitOneSession
    /\ InitGhostBc
    /\ InitRoute
    /\ loop = NoLoop
    /\ reg = NoReg
    /\ chan = NoChan
    /\ store = [at |-> "ready", workflow |-> WfMinimal, op |-> "load",
                status |-> 200, before |-> WfMinimal]

StoreStep(op, result) ==
    /\ store' = [at |-> "ready", workflow |-> result.wf, op |-> op,
                 status |-> result.status, before |-> store.workflow]
    /\ UNCHANGED <<sessionVars, ghostBcVars, routeVars, loop, reg, chan>>

\* the application starts on a workflow file: load_workflow_jsonl
SLoad ==
    \E body \in WorkflowBodies :
        LET parsed == _parse_workflow(body)
        IN  IF parsed.raised
            THEN StoreStep("load", [status |-> 400, wf |-> store.workflow])
            ELSE StoreStep("load", [status |-> 200, wf |-> parsed.wf])

SPatch ==
    \E state_id \in PatchStateIds, body \in PatchBodies :
      \E lib \in (IF DOMAIN body \cap ClassAttrs = {} THEN {"assigned"}
                  ELSE SetattrOutcomes),
         applied \in (IF DOMAIN body \cap ClassAttrs = {} THEN {{}}
                      ELSE SUBSET (DOMAIN body \ ClassAttrs)) :
        StoreStep("patch", update_workflow_state(store.workflow, state_id,
                                                 body, lib, applied))

SSave ==
    \E body \in WorkflowBodies :
        StoreStep("save", save_workflow(store.workflow, body))

NextStore == SLoad \/ SPatch \/ SSave

SpecStore == InitStore /\ [][NextStore]_vars

\* ------------------------------------------------ editing a live workflow
\* A call whose session was created on the registry's workflow object
\* (`_create_session(workflow=_workflows.get(...))`) while the admin surface
\* patches and replaces that workflow.  The session and the locals of a call
\* in flight hold references: a PATCH, which assigns the attributes of the
\* registry's state object, is seen through them while store.alias holds; a
\* PUT binds the registry to a new object and leaves the session on the old
\* one.
MaxEdits == 1

EditBodies ==
    {[transitions |-> [next |-> EXIT]],
     [on_enter |-> <<"Welcome back">>]}

EditStateIds == {sA, sB}

\* the object a local of the call refers to, after the workflow's state
\* objects were assigned to
Deref(wf, ref) ==
    IF ref = None THEN None ELSE _get_state(wf, ref[1].id)

InitEdit ==
    /\ InitOneSession
    /\ InitGhostBc
    /\ InitRoute
    /\ loop = NoLoop
    /\ reg = NoReg
    /\ chan = NoChan
    /\ store = [at |-> "ready", workflow |-> WfMinimal, op |-> "load",
                status |-> 200, before |-> WfMinimal,
                alias |-> TRUE, edits |-> 0]

EditStep(op, result, alias) ==
    /\ store' = [at |-> "ready", workflow |-> result.wf, op |-> op,
                 status |-> result.status, before |-> store.workflow,
                 alias |-> alias, edits |-> store.edits + 1]
    /\ workflow' = IF alias THEN result.wf ELSE workflow
    /\ frame' = IF alias
                THEN [frame EXCEPT !.state = Deref(result.wf, @),
                                   !.tool_state = Deref(result.wf, @)]
                ELSE frame
    /\ UNCHANGED <<session, paused, pc, ret, ctl, registered, last_call,
                   call_mark, call_entry, was_blocked, turns, pauses, resumes,
                   tool_done, tool_outcome, llm_failed>>
    /\ UNCHANGED <<ghostBcVars, routeVars, loop, reg, chan>>

\* PATCH /api/workflow/{id}/states/{state_id}
EPatch ==
    /\ store.edits < MaxEdits
    /\ \E state_id \in EditStateIds, body \in EditBodies :
          EditStep("patch",
                   update_workflow_state(store.workflow, state_id, body,
                                         "assigned", {}),
                   store.alias)

\* PUT /api/workflow/{id}
ESave ==
    /\ store.edits < MaxEdits
    /\ \E body \in {TypedBody(WfWild), IllTypedBody} :
          LET result == save_workflow(store.workflow, body)
          IN  EditStep("save", result, store.alias /\ result.status # 200)

NextEdit ==
    \/ GetGreeting
    \/ GreetingReply
    \/ Utterance(MaxTurns)
    \/ LlmReply
    \/ OpeningReply
    \/ LoopExit
    \/ EPatch
    \/ ESave

SpecEdit == InitEdit /\ [][NextEdit]_vars

\* ------------------------------------------------- Twilio media channel
\* TwilioMediaStreamChannel.__init__; ws is the socket as the peer left it
NewChannel ==
    [at |-> "chan", stream_sid |-> FALSE, stopped |-> FALSE, ws |-> "open",
     gen |-> "none", last_read |-> "none", yielded |-> 0,
     seen_end |-> FALSE, late |-> FALSE, raised |-> FALSE,
     send |-> [n |-> 0, tried |-> 0, ok |-> 0, failed |-> FALSE],
     closes |-> 0]

\* what `await self._ws.receive_text()` produces: a media, stop or mark
\* message, or an exception; a closed socket only raises
ReadOutcomes(c) ==
    IF c.ws = "dead" THEN {"error"} ELSE {"media", "stop", "mark", "error"}

\* the loop of receive_audio keeps reading after a read error
ReceiveAudioRetries(c, raw) ==
    IF c.stopped
    THEN [c EXCEPT !.gen = "ended"]
    ELSE CASE raw = "error" ->
                [c EXCEPT !.last_read = raw, !.ws = "dead",
                          !.seen_end = TRUE]
           [] raw = "media" ->
                [c EXCEPT !.last_read = raw, !.yielded = @ + 1,
                          !.late = @ \/ c.seen_end]
           [] raw = "stop" ->
                [c EXCEPT !.last_read = raw, !.stopped = TRUE,
                          !.gen = "ended", !.seen_end = TRUE]
           [] OTHER -> [c EXCEPT !.last_read = raw]

\* one iteration of `while not self._stopped` in receive_audio, lines
\* 147-164: a read error and a stop event break, a media message yields a
\* frame, any other message is ignored
receive_audio(c, raw) ==
    IF c.stopped
    THEN [c EXCEPT !.gen = "ended"]
    ELSE CASE raw = "error" ->
                [c EXCEPT !.last_read = raw, !.ws = "dead",
                          !.gen = "ended", !.seen_end = TRUE]
           [] raw = "media" ->
                [c EXCEPT !.last_read = raw, !.yielded = @ + 1,
                          !.late = @ \/ c.seen_end]
           [] raw = "stop" ->
                [c EXCEPT !.last_read = raw, !.stopped = TRUE,
                          !.gen = "ended", !.seen_end = TRUE]
           [] OTHER -> [c EXCEPT !.last_read = raw]

\* send_audio, lines 174-195: n frames, the send_text of frame fail_at
\* raises (0: none does); the loop breaks at the first failure
send_audio(c, n, fail_at) ==
    IF ~c.stream_sid
    THEN [c EXCEPT !.send = [n |-> n, tried |-> 0, ok |-> 0, failed |-> FALSE]]
    ELSE IF fail_at = 0
    THEN [c EXCEPT !.send = [n |-> n, tried |-> n, ok |-> n, failed |-> FALSE]]
    ELSE [c EXCEPT !.send = [n |-> n, tried |-> fail_at, ok |-> fail_at - 1,
                             failed |-> TRUE]]

\* close, lines 207-214: the exception of ws.close() is swallowed
close(c, ws_raises) ==
    [c EXCEPT !.stopped = TRUE, !.ws = "dead", !.closes = @ + 1]

InitChan ==
    /\ InitOneSession
    /\ InitGhostBc
    /\ InitRoute
    /\ loop = NoLoop
    /\ reg = NoReg
    /\ store = NoStore
    /\ chan = NewChannel

ChanStep(c) ==
    /\ chan.at = "chan"
    /\ chan' = c
    /\ UNCHANGED <<sessionVars, ghostBcVars, routeVars, loop, reg, store>>

\* initialize received the start event
CInitialize ==
    /\ ~chan.stream_sid
    /\ chan.ws = "open"
    /\ ChanStep([chan EXCEPT !.stream_sid = TRUE])

\* `async for frame in channel.receive_audio()` creates the generator
CReceive ==
    /\ chan.gen # "open"
    /\ ChanStep([chan EXCEPT !.gen = "open", !.last_read = "none"])

CRead ==
    /\ chan.gen = "open"
    /\ \E raw \in ReadOutcomes(chan) :
          /\ raw = "media" => chan.yielded < MaxChanFrames
          /\ ChanStep(receive_audio(chan, raw))

CSend ==
    \E n \in 0..MaxChanFrames :
        \E fail_at \in (IF n > 0 /\ chan.ws = "dead" THEN {1} ELSE 0..n) :
            ChanStep(send_audio(chan, n, fail_at))

CClose ==
    /\ chan.closes < MaxCloses
    /\ \E ws_raises \in {chan.ws = "dead", TRUE} :
          ChanStep(close(chan, ws_raises))

NextChan == CInitialize \/ CReceive \/ CRead \/ CSend \/ CClose

SpecChan == InitChan /\ [][NextChan]_vars

\* ---------------------------------------------------------------- admin
\* settings.admin_api_key and settings.debug: the shipped defaults (empty
\* key, debug off), a configured key, and local development
AdminConfigs ==
    {[key |-> "", debug |-> FALSE],
     [key |-> "k", debug |-> FALSE],
     [key |-> "", debug |-> TRUE]}

\* the bearer token a request presents: none, the configured one, another
Credentials == {None, Some("k"), Some("x")}

\* require_admin_token / require_admin_ws: 200 stands for "returns"
require_admin_token(key, debug, credentials) ==
    IF key = ""
    THEN IF debug THEN 200 ELSE 403
    ELSE IF credentials = None \/ credentials[1] # key THEN 401 ELSE 200

InitAdmin ==
    /\ InitOneSession
    /\ InitGhostBc
    /\ InitRoute
    /\ loop = NoLoop
    /\ reg = NoReg
    /\ chan = NoChan
    /\ \E cfg \in AdminConfigs :
          store = [at |-> "admin", workflow |-> WfMinimal, op |-> "load",
                   status |-> 200, before |-> WfMinimal,
                   key |-> cfg.key, debug |-> cfg.debug, token |-> None,
                   was_paused |-> FALSE]

\* a request to an admin endpoint; the routes of create_app declare no
\* dependency, so the handler body runs for every request
AdminStep(op, result, credentials) ==
    /\ store.at = "admin"
    /\ store' = [store EXCEPT !.workflow = result.wf, !.op = op,
                              !.status = result.status,
                              !.before = store.workflow,
                              !.token = credentials,
                              !.was_paused = ~paused]
    /\ UNCHANGED <<ghostBcVars, routeVars, loop, reg, chan>>

APatch ==
    \E credentials \in Credentials, state_id \in {sA, sGhost},
       body \in {[transitions |-> [next |-> EXIT]], [bogus |-> "x"]} :
        /\ AdminStep("patch",
                     update_workflow_state(store.workflow, state_id, body,
                                           "assigned", {}),
                     credentials)
        /\ UNCHANGED sessionVars

ASave ==
    \E credentials \in Credentials,
       body \in {TypedBody(WfToolFirst), IllTypedBody} :
        /\ AdminStep("save", save_workflow(store.workflow, body), credentials)
        /\ UNCHANGED sessionVars

\* pause_session, app.py 528-535
APause ==
    \E credentials \in Credentials :
        /\ registered
        /\ pauses < MaxPauses
        /\ AdminStep("pause", [status |-> 200, wf |-> store.workflow],
                     credentials)
        /\ paused' = FALSE
        /\ session' = pause(session)
        /\ pauses' = pauses + 1
        /\ UNCHANGED <<workflow, pc, frame, ret, ctl, registered, last_call,
                       call_mark, call_entry, was_blocked, turns, resumes,
                       tool_done, tool_outcome, llm_failed>>

\* resume_session, app.py 537-544
AResume ==
    \E credentials \in Credentials :
        /\ registered
        /\ resumes < pauses
        /\ AdminStep("resume", [status |-> 200, wf |-> store.workflow],
                     credentials)
        /\ paused' = TRUE
        /\ session' = resume(session)
        /\ resumes' = resumes + 1
        /\ UNCHANGED <<workflow, pc, frame, ret, ctl, registered, last_call,
                       call_mark, call_entry, was_blocked, turns, pauses,
                       tool_done, tool_outcome, llm_failed>>

NextAdmin == APatch \/ ASave \/ APause \/ AResume

SpecAdmin == InitAdmin /\ [][NextAdmin]_vars

\* ================================================================ claims
\* The target the routing rule names for an intent: transitions[intent]
\* when the key is present, otherwise transitions["*"], otherwise none.
Selected(state, intent) ==
    IF intent \in DOMAIN state.transitions
    THEN Some(state.transitions[intent])
    ELSE DictGet(state.transitions, WILDCARD)

\* `exit` or `exit:<msg>`
IsExitTarget(target) == target = EXIT \/ StartsWith(target, EXIT \o <<COLON>>)

\* The events a step appended to the log
Appended(before, after) == SubSeq(after, Len(before) + 1, Len(after))

\* The events appended since the last get_greeting / handle_utterance began
CallEvents ==
    SubSeq(session.bc.event_log, call_mark + 1, Len(session.bc.event_log))

IsOwnEvent(e) == e.type \notin {"pause", "resume"}

\* ... those of the call itself, the operator's pause / resume events aside
OwnEvents == SelectSeq(CallEvents, IsOwnEvent)

HasEvent(events, type) == \E i \in 1..Len(events) : events[i].type = type

\* C1: whenever the session is not done, its current state id is the id of
\* a state of its workflow.
C1_StateInWorkflow ==
    ~session.done => session.current_step_id \in DOMAIN workflow.states

\* The state the routed call started from
RouteState == workflow.states[r_out.before.current_step_id]

\* C2: _resolve_transition uses transitions[intent] when the key is present
\* (an empty target meaning stay) and the wildcard only when it is absent;
\* with no target the session stays: current state and done unchanged, no
\* transition event.
C2_RoutingUsesIntentKey ==
    r_out.at = "resolved" =>
        LET target == Selected(RouteState, r_in.intent)
        IN  IF target = None \/ target[1] = <<>>
            THEN /\ session.current_step_id = r_out.before.current_step_id
                 /\ session.done = r_out.before.done
                 /\ Len(session.bc.event_log) = r_out.log_before
                 /\ r_out.next = Some(RouteState)
            ELSE \/ session.done
                 \/ session.current_step_id = _resolve_target(workflow, target[1])[1]

LiveUtterance ==
    /\ last_call = "utterance"
    /\ ~call_entry.done
    /\ call_entry.current_step_id \in DOMAIN workflow.states

\* ... and it returned its text
UtteranceReturned == pc = "idle" /\ ret.kind = "text"

\* The order of the claim as stated: stt, llm_call, llm_response,
\* [field_progress]?, [step_complete]?, tool_exec*, [transition]?
StatedOrderStep(q, type) ==
    CASE q = "o0" /\ type = "stt" -> "o1"
      [] q = "o1" /\ type = "llm_call" -> "o2"
      [] q = "o2" /\ type = "llm_response" -> "o3"
      [] q = "o3" /\ type = "field_progress" -> "o4"
      [] q \in {"o3", "o4"} /\ type = "step_complete" -> "o5"
      [] q \in {"o3", "o4", "o5", "o6"} /\ type = "tool_exec" -> "o6"
      [] q \in {"o3", "o4", "o5", "o6"} /\ type = "transition" -> "o7"
      [] OTHER -> "bad"

RECURSIVE StatedOrderRun(_, _)
StatedOrderRun(q, events) ==
    IF events = <<>> THEN q
    ELSE StatedOrderRun(StatedOrderStep(q, events[1].type), Tail(events))

CallOrderStep(q, type) ==
    CASE q = "q0" /\ type = "stt" -> "q1"
      [] q = "q1" /\ type = "transition" -> "q1t"
      [] q \in {"q1", "q1t"} /\ type = "llm_call" -> "q2"
      [] q = "q2" /\ type = "llm_response" -> "q3"
      [] q = "q3" /\ type = "field_progress" -> "q4"
      [] q \in {"q3", "q4"} /\ type = "step_complete" -> "q5"
      [] q = "q5" /\ type \in {"transition", "tool_exec"} -> "q5"
      [] q = "q5" /\ type = "llm_call" -> "q7"
      [] q = "q7" /\ type = "llm_response" -> "q8"
      [] OTHER -> "bad"

RECURSIVE CallOrderRun(_, _)
CallOrderRun(q, events) ==
    IF events = <<>> THEN q
    ELSE CallOrderRun(CallOrderStep(q, events[1].type), Tail(events))

IsToolStep == tool_done' = tool_done + 1

\* Among the events new, the k-th is the transition out of state st under
\* intent, whenever the routing rule names a target that is a state.
ResolvedWith(st, intent, new, k) ==
    LET target == Selected(st, intent)
    IN  (target # None /\ target[1] # <<>> /\ ~StartsWith(target[1], EXIT)) =>
            /\ Len(new) >= k
            /\ new[k].type = "transition"
            /\ new[k].data.from = st.id
            /\ new[k].data.intent = intent
            /\ new[k].data.to = _resolve_target(workflow, target[1])[1]

ToolStepHandled ==
    LET st == frame.tool_state[1]
        new == Appended(session.bc.event_log, session'.bc.event_log)
    IN  IF tool_outcome' = "raise"
        THEN /\ ret'.kind # "raised"
             /\ st.id \in DOMAIN session'.step_data
             /\ Head(session'.step_data[st.id]) = "Error:"
             /\ ResolvedWith(st, "error", new, 1)
             /\ \A i \in 1..Len(new) :
                   (new[i].type = "transition" /\ new[i].data.from = st.id)
                       => new[i].data.intent = "error"
             /\ session'.done =>
                   /\ Selected(st, "error") # None
                   /\ StartsWith(Selected(st, "error")[1], EXIT)
        ELSE /\ new # <<>> /\ new[1].type = "tool_exec"
             /\ frame.tool_i = Len(st.tool_names) =>
                   /\ st.id \in DOMAIN session'.step_data
                   /\ session'.step_data[st.id]
                          = JoinLines(Append(frame.results, ToolResultText))
                   /\ ResolvedWith(st, st.auto_intent, new, 2)
             /\ \A i \in 1..Len(new) :
                   (new[i].type = "transition" /\ new[i].data.from = st.id)
                       => new[i].data.intent = st.auto_intent

\* C9: a tool that raises while its tool state is auto-executed is caught
\* inside the tool-step loop: the call does not raise, step_data[state.id]
\* starts with "Error:", the transition is resolved with intent "error" (on
\* success with the state's auto_intent), and the session is done only if
\* the error target is an exit.
C9_ToolErrorCaught == [][IsToolStep => ToolStepHandled]_vars

\* A tool raised, the session recorded the error and moved to the recovery
\* state, and the call goes on.
C9_Witness ==
    /\ tool_outcome = "raise"
    /\ workflow = WfTools
    /\ sT \in DOMAIN session.step_data
    /\ Head(session.step_data[sT]) = "Error:"
    /\ session.current_step_id = sE
    /\ ~session.done
    /\ pc = "opening"

CountType(events, type) == Cardinality({i \in 1..Len(events) : events[i].type = type})

\* The last handle_utterance found the session paused and no resume()
\* came since.
StillPaused ==
    /\ last_call = "utterance"
    /\ was_blocked
    /\ ~HasEvent(CallEvents, "resume")

\* C10: a handle_utterance call on a paused session blocks before doing
\* anything: until resume() it has emitted no event, made no LLM or tool
\* call and changed no session state; after resume() it proceeds as any
\* call, starting with stt; pause() and resume() emit their events.
C10_PausedBlocks ==
    /\ StillPaused =>
          /\ pc = "blocked"
          /\ ~paused
          /\ OwnEvents = <<>>
          /\ Core(session) = call_entry
    /\ pc = "woken" =>
          /\ HasEvent(CallEvents, "resume")
          /\ OwnEvents = <<>>
          /\ Core(session) = call_entry
    /\ (last_call = "utterance" /\ was_blocked /\ OwnEvents # <<>>) =>
          /\ OwnEvents[1].type = "stt"
          /\ CallOrderRun("q0", OwnEvents) # "bad"
    /\ CountType(session.bc.event_log, "pause") = pauses
    /\ CountType(session.bc.event_log, "resume") = resumes

\* A call that waited for resume() and is now at its LLM await.
C10_Witness ==
    /\ last_call = "utterance"
    /\ was_blocked
    /\ pc = "llm"
    /\ HasEvent(CallEvents, "resume")
    /\ OwnEvents[1].type = "stt"

\* What a subscriber has received: the events it read, then those queued.
Received(q) == read[q] \o session.bc.queues[q]

\* The last emit of the subscription window of q
WindowEnd(q) == IF sub[q].state = "subscribed" THEN Len(emitted) ELSE sub[q].to

\* C5: when more than the capacity of 200 events were emitted while a
\* subscriber read nothing, its queue holds exactly the last 200 emitted
\* events in emission order.
C5_QueueKeepsLast ==
    \A q \in QueueIds :
        (/\ sub[q].state = "subscribed"
         /\ read[q] = <<>>
         /\ Len(emitted) - sub[q].from > maxsize) =>
            session.bc.queues[q]
                = SubSeq(emitted, Len(emitted) - maxsize + 1, Len(emitted))

\* Two events more than the capacity: the queue starts at the third.
C5_Witness ==
    /\ sub["q1"].state = "subscribed"
    /\ read["q1"] = <<>>
    /\ Len(emitted) = maxsize + 2
    /\ Len(session.bc.queues["q1"]) = maxsize
    /\ Head(session.bc.queues["q1"]).data.text = 3

\* C6: what a subscriber reads is a subsequence, in emission order, of the
\* events emitted between its subscribe and its unsubscribe; an event of
\* that window is missing only for an emit that found the queue full; no
\* event emitted after unsubscribe is placed in the queue.
C6_SubscriberWindow ==
    \A q \in QueueIds :
        LET got == Received(q)
        IN  /\ \A i \in 1..Len(got) :
                  /\ got[i].data.text \in (sub[q].from + 1)..WindowEnd(q)
                  /\ emitted[got[i].data.text] = got[i]
            /\ \A i \in 1..(Len(got) - 1) : got[i].data.text < got[i + 1].data.text
            /\ sub[q].state # "new" =>
                  Len(got) + full_at[q] = WindowEnd(q) - sub[q].from
            /\ sub[q].state = "new" => got = <<>>

\* A subscriber that lost an event to a full queue, read one, unsubscribed,
\* and an emit came after.
C6_Witness ==
    /\ sub["q1"].state = "unsubscribed"
    /\ full_at["q1"] >= 1
    /\ read["q1"] # <<>>
    /\ Len(emitted) > sub["q1"].to
    /\ sub["q2"].state = "subscribed"
    /\ session.bc.queues["q2"] # <<>>

\* C7: the event log holds every emitted event exactly once in emission
\* order, whatever the subscribers and queue overflows, and clearing the
\* list returned by event_log leaves the log as it was.
C7_LogComplete == session.bc.event_log = emitted

\* The returned list was cleared after an overflow; the log is intact.
C7_Witness ==
    /\ returned.held
    /\ returned.list = <<>>
    /\ Len(emitted) > maxsize
    /\ full_at["q1"] >= 1

\* C11: get_greeting never advances the state machine: whatever the reply
\* holds, after it the current state is the initial state, done, step_data
\* and the caller state are as before, and the call emitted no
\* step_complete and no transition event.
C11_GreetingStays ==
    last_call = "greeting" =>
        /\ session.current_step_id = workflow.initial_state
        /\ session.done = call_entry.done
        /\ session.step_data = call_entry.step_data
        /\ session.caller_state = call_entry.caller_state
        /\ ~HasEvent(CallEvents, "step_complete")
        /\ ~HasEvent(CallEvents, "transition")

\* The greeting returned, and its reply carried a completion signal.
C11_Witness ==
    /\ last_call = "greeting"
    /\ pc = "idle" /\ ret.kind = "text"
    /\ Len(CallEvents) = 2
    /\ CallEvents[2].type = "llm_response"
    /\ CallEvents[2].data.has_json_signal
    /\ "intent" \in DOMAIN CallEvents[2].data.response.signal[1]

\* The step is an LLM reply arriving in _handle_llm_step with a JSON signal.
IsSignalStep ==
    /\ pc = "llm"
    /\ session'.bc.event_log # session.bc.event_log
    /\ Appended(session.bc.event_log, session'.bc.event_log)[1].data.response.signal # None

\* The signal of that reply
StepSignal ==
    Appended(session.bc.event_log, session'.bc.event_log)[1].data.response.signal[1]

\* The state_fields keys of the replying state that the signal carries
SignalKeys == {k \in DOMAIN frame.state[1].state_fields : k \in DOMAIN StepSignal}

StoringKeys == {k \in SignalKeys : StepSignal[k] # None}

StateFieldsStored ==
    LET fields == frame.state[1].state_fields
        new == Appended(session.bc.event_log, session'.bc.event_log)
    IN  /\ \A f \in CallerFields :
              session'.caller_state[f] =
                  IF \E k \in StoringKeys : fields[k] = <<f>>
                  THEN Some(StepSignal[CHOOSE k \in StoringKeys : fields[k] = <<f>>])
                  ELSE session.caller_state[f]
        /\ \A k \in StoringKeys :
              (Len(fields[k]) = 2 /\ fields[k][1] = "step_data.") =>
                  /\ Tail(fields[k]) \in DOMAIN session'.step_data
                  /\ session'.step_data[Tail(fields[k])] = StepSignal[k]
        /\ \A k \in DOMAIN fields \ StoringKeys :
              (Len(fields[k]) = 2 /\ fields[k][1] = "step_data.") =>
                  /\ Tail(fields[k]) \in DOMAIN session'.step_data
                         <=> Tail(fields[k]) \in DOMAIN session.step_data
                  /\ Tail(fields[k]) \in DOMAIN session.step_data =>
                         session'.step_data[Tail(fields[k])]
                             = session.step_data[Tail(fields[k])]
        /\ \A i \in 1..Len(new) :
              new[i].type = "transition" =>
                  \E j \in 1..(i - 1) : new[j].type = "step_complete"

C13_ReturnedTextHasNoSignal ==
    (last_call = "utterance" /\ UtteranceReturned) => ret.value.signal = None

\* The last step_complete event of the call
LastStepComplete ==
    LET idx == {i \in 1..Len(OwnEvents) : OwnEvents[i].type = "step_complete"}
    IN  OwnEvents[CHOOSE i \in idx : \A j \in idx : j <= i]

\* The returned call set done through an exit transition, not through the
\* done flag of the signal.
EndedInExit ==
    /\ LiveUtterance /\ UtteranceReturned
    /\ session.done
    /\ HasEvent(OwnEvents, "step_complete")
    /\ ~SignalDone(LastStepComplete.data.extracted_data)

\* The state the session exited from and the intent that was resolved
ExitState == workflow.states[session.current_step_id]
ExitIntent ==
    IF ExitState.step_type = "tool"
    THEN IF tool_outcome = "raise" THEN "error" ELSE ExitState.auto_intent
    ELSE DictGetDefault(LastStepComplete.data.extracted_data, "intent", "success")

\* C14: when a turn ends in an exit transition, done is true and the text
\* returned by handle_utterance is the override message of that
\* transition, or the workflow's exit_message when the target carries none.
C14_ExitReturnsGoodbye ==
    EndedInExit =>
        LET target == Selected(ExitState, ExitIntent)[1]
        IN  ret.value.text = IF Contains(target, COLON)
                             THEN SubSeq(target, Len(EXIT) + 2, Len(target))
                             ELSE workflow.exit_message

\* C15: dead-transport detection.  Once 100 consecutive polls of the turn
\* loop have passed without a new audio frame, whatever the mic buffer
\* holds, the loop is no longer polling: it has declared the transport
\* dead, set done and exited.
C15_DeadTransportDeclared ==
    loop.at = "poll" => loop.idle < NO_FRAMES_LIMIT

\* C16: once is_done is true after a handle_utterance, the controller, on
\* either transport, requests no further transcription and makes no
\* further handle_utterance call.
C16_NoTurnAfterDone ==
    loop.at # "none" => ~loop.late_stt /\ ~loop.late_call

\* The step in which _wait_for_playback confirms a barge-in
BargeInConfirmed ==
    /\ loop.at = "play"
    /\ loop'.at = "bargelog"
    /\ loop'.barged = "confirmed"

\* C17: on a confirmed barge-in the controller calls stop_speaking and keeps
\* the most recent (confirm_count + 1) polls' worth of mic frames instead
\* of clearing the buffer; it is back in the turn loop with has_speech
\* true; and the audio handed to STT at the next endpoint includes the
\* preserved frames.
C17_BargeInPreserves ==
    /\ [][BargeInConfirmed =>
            /\ loop'.stop_speaking = 1
            /\ loop'.mic # <<>>
            /\ loop'.mic = LastFrames(loop.mic,
                               (loop'.barge_confirm + 1) * FRAMES_PER_POLL)]_vars
    /\ []((loop.at = "poll" /\ loop.barged = "confirmed") => loop.has_speech)
    /\ []((loop.at = "stt" /\ loop.endpoint /\ loop.barged = "confirmed") =>
             /\ Len(loop.pcm) >= Len(loop.preserved)
             /\ SubSeq(loop.pcm, 1, Len(loop.preserved)) = loop.preserved)

\* an endpoint after a barge-in that cut the buffer down to three polls'
\* worth of frames, with more audio collected after it
C17_Witness ==
    /\ loop.at = "stt" /\ loop.endpoint /\ loop.barged = "confirmed"
    /\ Len(loop.preserved) = 3 * FRAMES_PER_POLL
    /\ loop.preserved[1].id > 1
    /\ Len(loop.pcm) > Len(loop.preserved)

\* C18: the session is in the registry from register_session until its
\* turn loop exits, and after every exit of the loop (session done, dead
\* transport, exception, hangup, disconnect) it has been removed.
C18_SessionLifecycle ==
    loop.at # "none" =>
        (loop.sid \in reg.sessions <=> loop.at \notin {"connecting", "exited"})

\* the loop was cancelled after a hangup or a disconnect and has left
C18_Witness ==
    /\ loop.at = "exited" /\ loop.exit = "cancelled" /\ loop.has_sid
    /\ loop.sid \notin reg.sessions

\* C19: once a session has been unregistered, on either transport and
\* under any interleaving with debug-stream subscriptions, the broadcaster
\* registry holds no entry for its session id.
C19_BroadcasterFollowsSession ==
    \A sid \in Sids :
        (reg.calls[sid].at = "exited" /\ sid \notin reg.sessions) =>
            sid \notin reg.broadcasters

\* The targets of a state's transitions
Targets(state) == {state.transitions[i] : i \in DOMAIN state.transitions}

\* The states from which an exit target is reachable: those in `found`,
\* grown n times by the states with a transition into it
RECURSIVE ExitClosure(_, _, _)
ExitClosure(wf, found, n) ==
    IF n = 0 THEN found
    ELSE ExitClosure(wf,
                     found \cup {id \in DOMAIN wf.states :
                                    Targets(wf.states[id]) \cap found # {}},
                     n - 1)

CanReachExit(wf) ==
    ExitClosure(wf,
                {id \in DOMAIN wf.states :
                    \E t \in Targets(wf.states[id]) : IsExitTarget(t)},
                Cardinality(DOMAIN wf.states))

WorkflowValid(wf) ==
    /\ wf.initial_state \in DOMAIN wf.states
    /\ \A id \in DOMAIN wf.states : \A t \in Targets(wf.states[id]) :
          IsExitTarget(t) \/ t \in DOMAIN wf.states
    /\ CanReachExit(wf) = DOMAIN wf.states

\* C20: after any sequence of load, patch and replace the stored workflow
\* has an initial_state that is a state id, only exits and state ids as
\* transition targets and an exit reachable from every state; an operation
\* answered with an error leaves the stored workflow unchanged.
C20_StoredWorkflowValid ==
    store.at = "ready" =>
        /\ WorkflowValid(store.workflow)
        /\ store.status >= 400 => store.workflow = store.before

\* the fields a single-state patch may change (tests/test_auth.py)
_STATE_PATCH_ALLOWLIST ==
    {"on_enter", "system_prompt", "narration", "tool_names", "transitions",
     "state_fields", "tool_args_map", "auto_intent", "step_type", "handler",
     "max_turns", "max_turns_target"}

\* C21: a single-state patch changes only allowlisted fields: after a patch
\* every attribute of every state that is outside the allowlist (id,
\* model_config, model_fields, ...) was already there with the same value.
C21_PatchOnlyAllowlisted ==
    (store.at = "ready" /\ store.op = "patch") =>
        \A sid \in DOMAIN store.workflow.states :
            \A k \in DOMAIN store.workflow.states[sid] \ _STATE_PATCH_ALLOWLIST :
                /\ sid \in DOMAIN store.before.states
                /\ k \in DOMAIN store.before.states[sid]
                /\ store.workflow.states[sid][k] = store.before.states[sid][k]

\* the guard admits: the key is set and the token equals it, or the key is
\* empty and debug is set
Admitted ==
    \/ store.key # "" /\ store.token = Some(store.key)
    \/ store.key = "" /\ store.debug

\* C22: an admin request takes effect only if the guard admits it; a
\* request the guard does not admit is answered 403 when no key is
\* configured and debug is off, 401 otherwise, and changes neither the
\* stored workflow nor the pause state of the session.
C22_AdminGuarded ==
    (store.at = "admin" /\ store.op # "load" /\ ~Admitted) =>
        /\ store.status = require_admin_token(store.key, store.debug,
                                              store.token)
        /\ store.status = (IF store.key = "" THEN 403 ELSE 401)
        /\ store.workflow = store.before
        /\ paused = ~store.was_paused

\* C23: on the Twilio channel, once a read raised or a stop event arrived
\* receive_audio has ended and no frame is yielded afterwards; send_audio
\* stops at the first send that fails, sending none of the remaining
\* frames; and no call of receive_audio, send_audio or close raises,
\* however often close is called.
C23_ChannelFailures ==
    chan.at = "chan" =>
        /\ chan.last_read \in {"error", "stop"} => chan.gen = "ended"
        /\ ~chan.late
        /\ chan.send.failed => chan.send.tried = chan.send.ok + 1
        /\ chan.send.tried <= chan.send.n
        /\ ~chan.raised

C23_Witness ==
    /\ chan.at = "chan"
    /\ chan.seen_end
    /\ chan.gen = "open"
    /\ chan.yielded > 0
    /\ chan.send.failed /\ chan.send.tried < chan.send.n
    /\ chan.closes = MaxCloses

\* C24: the tool auto-execute loop terminates whatever the tools do: inside
\* one call it never comes back to a tool state it already ran (a repeat
\* under one combination of outcomes is an endless run under the combination
\* that repeats them), and it never runs on without leaving the tool states.
C24_ToolLoopTerminates == ~frame.rerun /\ pc # "spin"

\* events[i] is the transition into a tool state and events[j] the next
\* transition, which leaves it: the state was auto-executed in between
LeavesTool(events, i, j) ==
    /\ i < j
    /\ events[i].type = "transition" /\ events[j].type = "transition"
    /\ \A k \in (i + 1)..(j - 1) : events[k].type # "transition"
    /\ events[i].data.to = events[j].data.from
    /\ events[i].data.to \in DOMAIN workflow.states
    /\ workflow.states[events[i].data.to].step_type = "tool"

\* the tool names of the tool_exec events between events[i] and events[j]
ToolExecsBetween(events, i, j) ==
    LET IsToolExec(e) == e.type = "tool_exec"
        execs == SelectSeq(SubSeq(events, i + 1, j - 1), IsToolExec)
    IN  [k \in 1..Len(execs) |-> execs[k].data.tool_name]

LeavesLlmState(events, k) ==
    /\ events[k].type = "transition"
    /\ events[k].data.from \in DOMAIN workflow.states
    /\ workflow.states[events[k].data.from].step_type = "llm"

\* C26: among the events of one handle_utterance call, every llm_call comes
\* after the stt event; every step_complete comes after the llm_response
\* whose JSON signal it carries, with no other LLM call in between; and
\* every transition out of an LLM state comes after the step_complete of
\* that state whose intent it routes.
C26_EventPrecedence ==
    LiveUtterance =>
        \A k \in 1..Len(OwnEvents) :
            /\ OwnEvents[k].type = "llm_call" =>
                  \E i \in 1..(k - 1) : OwnEvents[i].type = "stt"
            /\ OwnEvents[k].type = "step_complete" =>
                  \E i \in 1..(k - 1) :
                      /\ OwnEvents[i].type = "llm_response"
                      /\ _extract_json_signal(OwnEvents[i].data.response)
                            = Some(OwnEvents[k].data.extracted_data)
                      /\ \A m \in (i + 1)..(k - 1) :
                            OwnEvents[m].type \notin {"llm_call", "llm_response"}
            /\ LeavesLlmState(OwnEvents, k) =>
                  \E i \in 1..(k - 1) :
                      /\ OwnEvents[i].type = "step_complete"
                      /\ OwnEvents[i].state_id = OwnEvents[k].data.from
                      /\ DictGetDefault(OwnEvents[i].data.extracted_data,
                                        "intent", "success")
                            = OwnEvents[k].data.intent
                      /\ \A m \in (i + 1)..(k - 1) :
                            OwnEvents[m].type # "transition"

\* a returned call with stt, llm_call, llm_response, step_complete and the
\* transition it caused, in that order
C26_Witness ==
    /\ LiveUtterance /\ UtteranceReturned
    /\ \E a, b, c, d, e \in 1..Len(OwnEvents) :
          /\ a < b /\ b < c /\ c < d /\ d < e
          /\ OwnEvents[a].type = "stt"
          /\ OwnEvents[b].type = "llm_call"
          /\ OwnEvents[c].type = "llm_response"
          /\ OwnEvents[d].type = "step_complete"
          /\ LeavesLlmState(OwnEvents, e)

\* id names an LLM state of the session's workflow
IsLlmStateId(id) ==
    id \in DOMAIN workflow.states /\ workflow.states[id].step_type = "llm"

\* C27: in a workflow whose initial state is an LLM state, handle_utterance
\* is entered on a session that is not done only in an LLM state, and when
\* it returns with the session not done the current state is an LLM state.
C27_UtteranceInLlmState ==
    (IsLlmStateId(workflow.initial_state) /\ last_call = "utterance") =>
        /\ ~call_entry.done => IsLlmStateId(call_entry.current_step_id)
        /\ (pc = "idle" /\ ret.kind = "text" /\ ~session.done) =>
              IsLlmStateId(session.current_step_id)

\* the positions of the opening calls among the events of the call: the
\* llm_call events that follow its step_complete
OpeningCalls ==
    {k \in 1..Len(OwnEvents) :
        /\ OwnEvents[k].type = "llm_call"
        /\ \E i \in 1..(k - 1) : OwnEvents[i].type = "step_complete"}

\* the reply of the call carried a signal and its transition advanced
Advanced == \E k \in 1..Len(OwnEvents) : LeavesLlmState(OwnEvents, k)

\* what the opening call asks for
SayOnEnter(state) ==
    Plain(<<"You are now entering this conversation step. Say this:">>
          \o state.on_enter)

\* the replies of the LLM calls of the call, in order
CallReplies ==
    LET IsResponse(e) == e.type = "llm_response"
        responses == SelectSeq(OwnEvents, IsResponse)
    IN  [k \in 1..Len(responses) |-> responses[k].data.response]

\* the call returned the turn's text followed by the opening's reply
OpeningAppended ==
    (UtteranceReturned /\ Len(CallReplies) = 2) =>
        ret.value = JoinStrip(_extract_text_response(CallReplies[1]),
                              CallReplies[2])

LlmCallCompleted ==
    /\ Len(session'.bc.event_log) > Len(session.bc.event_log)
    /\ \E k \in (Len(session.bc.event_log) + 1)..Len(session'.bc.event_log) :
          session'.bc.event_log[k].type = "llm_response"

\* the history after the step is the history before it with the last two
\* entries of the new one appended, cut to its last 20 entries when that
\* makes more than 30
HistoryAppended ==
    LET new == session'.messages
        full == session.messages \o SubSeq(new, Len(new) - 1, Len(new))
    IN  /\ Len(new) >= 2
        /\ new[Len(new) - 1].role = "user"
        /\ new[Len(new)].role = "assistant"
        /\ new = IF Len(full) > 30 THEN SubSeq(full, Len(full) - 19, Len(full))
                 ELSE full

\* C29: every LLM call that returns appends the user turn and then the
\* assistant turn to the history and nothing else changes it; the history
\* never has more than 30 entries; an append that makes more than 30 leaves
\* exactly the last 20 entries, in their order.
C29_HistoryBound ==
    /\ [][/\ LlmCallCompleted => HistoryAppended
          /\ ~LlmCallCompleted => session'.messages = session.messages]_vars
    /\ [](Len(session.messages) <= 30)

\* a history of 30 entries was cut to 20 by a call, and the next call
\* appended to those
C29_Witness ==
    /\ Len(session.messages) = 22
    /\ session.messages[1].role = "user"
    /\ session.messages[1].content.text = <<"said", "7">>
    /\ session.messages[18].content.text = <<"answered", "15">>
    /\ session.messages[20].role = "assistant"

\* the silence gap and the least audio of the call's transport
EndpointGap ==
    IF loop.transport = "webrtc" THEN loop.settings.vad_silence_gap
    ELSE SILENCE_GAP_FRAMES

EndpointMinAudio ==
    IF loop.transport = "webrtc" THEN MIN_AUDIO ELSE TWILIO_MIN_AUDIO

\* a WebRTC poll that found frames and went on listening
ListeningPoll ==
    /\ loop.at = "poll" /\ loop'.at = "poll"
    /\ loop.transport = "webrtc"
    /\ loop.mic # <<>>
    /\ loop'.idle = loop.idle + 1

\* C30: on both transports transcription is requested only when speech was
\* confirmed in the current turn, the silence gap of sub-threshold polls has
\* followed and more than the least audio is buffered, and the buffer and
\* the counters are reset at the endpoint; while listening a sub-threshold
\* poll resets the speech-confirm count and an above-threshold poll resets
\* the silence count.
C30_Endpointing ==
    /\ [](loop.at = "stt" =>
            /\ loop.ep.speech
            /\ loop.ep.silence >= EndpointGap
            /\ loop.ep.bytes > EndpointMinAudio
            /\ loop.ep.left = 0
            /\ ~loop.has_speech
            /\ loop.silence_count = 0 /\ loop.speech_confirm_count = 0
            /\ loop.audio_buffer = 0 /\ loop.silence_frames = 0)
    /\ [][ListeningPoll =>
            IF loop.mic[Len(loop.mic)].rms >= loop.settings.vad_energy_threshold
            THEN loop'.silence_count = 0
            ELSE loop'.speech_confirm_count = 0]_vars

\* a step of the listening loop that finds more than 30 s of audio buffered:
\* a WebRTC poll, or a Twilio frame that takes the buffer over the bound
WebrtcOverflowPoll ==
    /\ loop.transport = "webrtc" /\ loop.at = "poll" /\ ~loop.done
    /\ loop'.arrived = loop.arrived /\ loop'.at # "exited"
    /\ Len(loop.mic) * FRAME_BYTES > MAX_BUFFER

TwilioOverflowFrame ==
    /\ loop.transport = "twilio" /\ loop.at = "recv"
    /\ loop'.at # "exited"
    /\ loop.audio_buffer + TWILIO_FRAME_BYTES > TWILIO_MAX_BUFFER

\* C31: on both transports a listening step that finds more than 30 s of
\* audio buffered forces an endpoint: the whole buffer goes to transcription
\* as at a normal endpoint and the buffer is emptied; so after every
\* listening step the buffer holds at most 30 s.
C31_ForcedEndpoint ==
    /\ [][WebrtcOverflowPoll =>
            /\ loop'.at = "stt"
            /\ loop'.pcm = loop.mic
            /\ loop'.mic = <<>>]_vars
    /\ [][TwilioOverflowFrame =>
            /\ loop'.at = "stt"
            /\ loop'.ep.bytes = loop.audio_buffer + TWILIO_FRAME_BYTES
            /\ loop'.audio_buffer = 0]_vars
    /\ [](loop.audio_buffer <= TWILIO_MAX_BUFFER)

\* the step in which _wait_for_playback returns: True after the debug
\* transcription of a barge-in, False from the end of playback
PlaybackInterrupted ==
    /\ loop.at = "play" /\ loop'.at = "bargelog"

PlaybackCompleted ==
    /\ loop.at = "play" /\ loop.play_left = 0
    /\ loop'.arrived = loop.arrived

PlaybackPolled ==
    /\ loop.at = "play" /\ loop.play_left > 0
    /\ loop'.play_left = loop.play_left - 1

QuietPoll ==
    /\ PlaybackPolled
    /\ loop.settings.barge_in_enabled
    /\ loop.mic # <<>>
    /\ MaxRms(LastFrames(loop.mic, FRAMES_PER_POLL))
           < loop.settings.barge_in_energy_threshold

TurnInProgress ==
    /\ last_call = "utterance"
    /\ pc # "idle" /\ pc' # "idle"

\* handle_utterance is entered
TurnStarts ==
    /\ pc = "idle" /\ turns' = turns + 1

\* C33: while a handle_utterance is in progress neither the workflow the
\* session reads nor the state definition the turn took at its start
\* changes, whatever the admin surface patches or replaces meanwhile; and a
\* turn starts on the workflow the registry holds at that moment, so an
\* edit takes effect from the next turn.
C33_WorkflowStableInTurn ==
    /\ [][TurnInProgress =>
            /\ workflow' = workflow
            /\ frame'.state = frame.state]_vars
    /\ [][TurnStarts => workflow = store.workflow]_vars

\* a poll of the WebRTC listening loop that found frames
VadPolled ==
    /\ loop.transport = "webrtc" /\ loop.at = "poll" /\ ~loop.done
    /\ loop.mic # <<>>
    /\ loop'.idle = loop.idle + 1 \/ loop'.at = "stt"

\* C34: every poll decides by the runtime settings as they are at that
\* poll.  A listening poll compares the latest frame with
\* vad_energy_threshold and ends the turn by vad_silence_gap and
\* vad_speech_confirm_frames; a playback poll does nothing when
\* barge_in_enabled is off, and otherwise counts the poll when the recent
\* frames reach barge_in_energy_threshold, resets the count when they do
\* not, and reports the barge-in when the count reaches
\* barge_in_confirm_frames.
C34_LiveSettings ==
    /\ [][VadPolled =>
            LET s == loop.settings
                loud == loop.mic[Len(loop.mic)].rms >= s.vad_energy_threshold
                speech == \/ loop.has_speech
                          \/ /\ loud
                             /\ loop.speech_confirm_count + 1
                                    >= s.vad_speech_confirm_frames
            IN  /\ loud => /\ loop'.at = "poll"
                           /\ loop'.silence_count = 0
                           /\ loop'.has_speech = speech
                /\ ~loud => /\ loop'.speech_confirm_count = 0
                            /\ loop'.at = "stt" <=>
                                  /\ loop.has_speech
                                  /\ loop.silence_count + 1 >= s.vad_silence_gap
                                  /\ Len(loop.mic) * FRAME_BYTES > MIN_AUDIO]_vars
    /\ [][PlaybackPolled =>
            LET s == loop.settings
                rms == MaxRms(LastFrames(loop.mic, FRAMES_PER_POLL))
            IN  IF ~s.barge_in_enabled \/ loop.mic = <<>>
                THEN /\ loop'.at = "play"
                     /\ loop'.barge_confirm = loop.barge_confirm
                ELSE IF rms < s.barge_in_energy_threshold
                THEN loop'.at = "play" /\ loop'.barge_confirm = 0
                ELSE IF loop.barge_confirm + 1 < s.barge_in_confirm_frames
                THEN /\ loop'.at = "play"
                     /\ loop'.barge_confirm = loop.barge_confirm + 1
                ELSE PlaybackInterrupted /\ loop'.stop_speaking = 1]_vars

\* LLM calls begun and not yet answered, by the event log
OpenLlmCalls ==
    CountType(session.bc.event_log, "llm_call")
        - CountType(session.bc.event_log, "llm_response")

\* a step taken while no get_greeting or handle_utterance is in flight
BetweenUtterances ==
    /\ pc = "idle" /\ pc' = "idle"
    /\ session' # session

ThroughPauseResume ==
    pauses' = pauses + 1 \/ resumes' = resumes + 1

\* the call is ended from outside the session
CallEnded ==
    /\ ctl' \in {"hangup", "cancel"} /\ ctl \notin {"hangup", "cancel"}
    /\ session' = [session EXCEPT !.done = TRUE]

DoneSet == ~session.done /\ session'.done

\* the intent the step resolved in the state the session is left in: that
\* of the reply's signal in an LLM state, the outcome of the tool step in a
\* tool state
ResolvedIntent(st) ==
    LET new == Appended(session.bc.event_log, session'.bc.event_log)
        completes == {i \in 1..Len(new) : new[i].type = "step_complete"}
    IN  IF st.step_type = "tool"
        THEN {IF tool_outcome' = "raise" THEN "error" ELSE st.auto_intent}
        ELSE {DictGetDefault(new[i].data.extracted_data, "intent", "success") :
                 i \in completes}

\* a transition of the state the session is left in resolved to an exit
ExitResolved ==
    /\ session'.current_step_id \in DOMAIN workflow.states
    /\ LET st == workflow.states[session'.current_step_id]
       IN  \E intent \in ResolvedIntent(st) :
              /\ Selected(st, intent) # None
              /\ StartsWith(Selected(st, intent)[1], EXIT)

\* C36: done becomes true only in a step that resolves a transition to an
\* exit target or in which the controller or the signaling layer ends the
\* call, never by what the JSON signal holds; and once true it stays true.
C36_DoneOnlyByExit ==
    /\ [][DoneSet => ExitResolved \/ CallEnded]_vars
    /\ [][session.done => session'.done]_vars

\* the events that show the state machine at work
MachineEvents == {"llm_call", "step_complete", "tool_exec", "transition"}

\* event k of the log lies after a pause event with no resume event between
InPause(events, k) ==
    \E i \in 1..(k - 1) :
        /\ events[i].type = "pause"
        /\ \A j \in (i + 1)..(k - 1) : events[j].type # "resume"

\* C37: no llm_call, step_complete, tool_exec or transition event lies
\* between a pause event and the next resume event of the session's log,
\* and while the session is paused current_state_id does not change,
\* wherever the pause falls relative to a handle_utterance in flight.
C37_PauseFreezes ==
    /\ [](\A k \in 1..Len(session.bc.event_log) :
             InPause(session.bc.event_log, k) =>
                 session.bc.event_log[k].type \notin MachineEvents)
    /\ [][(~paused /\ ~paused') =>
             session'.current_step_id = session.current_step_id]_vars

\* a step_complete event follows event k before the next llm_call
StepCompleteFollows(events, k) ==
    \E m \in (k + 1)..Len(events) :
        /\ events[m].type = "step_complete"
        /\ \A j \in (k + 1)..(m - 1) : events[j].type # "llm_call"

\* C38: in a returned handle_utterance call, the has_json_signal field of
\* every llm_response event is true exactly when a JSON signal is extracted
\* from the reply the event carries and a step_complete event follows it
\* in the same LLM turn.
C38_HasJsonSignal ==
    (LiveUtterance /\ UtteranceReturned) =>
        \A k \in 1..Len(OwnEvents) :
            OwnEvents[k].type = "llm_response" =>
                (OwnEvents[k].data.has_json_signal <=>
                    (/\ _extract_json_signal(OwnEvents[k].data.response) # None
                     /\ StepCompleteFollows(OwnEvents, k)))

\* the positions of the transition events of a log
TransitionsOf(events) == {k \in 1..Len(events) : events[k].type = "transition"}

\* the state the transition events before position k leave the session in
StateBefore(events, k) ==
    LET earlier == {i \in TransitionsOf(events) : i < k}
    IN  IF earlier = {} THEN workflow.initial_state
        ELSE events[CHOOSE i \in earlier : \A j \in earlier : j <= i].data.to

\* resolving intent in the session's current state leads to an exit
ExitsOn(intent) ==
    /\ session.current_step_id \in DOMAIN workflow.states
    /\ LET target == LookupTarget(workflow.states[session.current_step_id], intent)
       IN  Truthy(target) /\ _resolve_target(workflow, target[1])[1] = <<>>

SessionsCreated == {i \in Offers : chan.rtc[i] # "none"}
LoopsStarted == {i \in Offers : chan.task[i] # "none"}

\* C40: once the signaling connection has ended, every voice loop started on
\* it has finished or has been cancelled, every scheduling session created
\* on it is marked done and, its loop having ended, is unregistered, and
\* every WebRTC session created on it is closed.
C40_ConnectionCleanup ==
    chan.conn = "closed" =>
        /\ \A i \in LoopsStarted :
              /\ chan.task[i] \in {"finished", "cancel_requested", "cancelled"}
              /\ chan.done[i]
              /\ TaskDone(chan, i) => ~chan.registered[i]
        /\ \A i \in SessionsCreated : chan.rtc[i] = "closed"
====
